---- MODULE Spec2Model ----
(***************************************************************************)
(* Model of the terraform-ai-agent backend: the Express router of          *)
(* backend/routes/terraform.js (verify-role, chat, apply and the in-memory *)
(* ledger pendingActions) together with the request validator of           *)
(* backend/middleware/security.js, the workspace executor of               *)
(* backend/utils/terraformExecutor.js (generateTerraformFiles,             *)
(* executeTerraform, cleanupOldWorkspaces and its hourly interval) and the *)
(* classifier of the client (RealTerraformAgent.jsx, sendMessage).         *)
(*                                                                         *)
(* Node runs every handler on one thread: the code between two awaits of   *)
(* an external call is one atomic step.  A handler is therefore split      *)
(* exactly at its awaits of the STS and S3 calls; an await of a local      *)
(* async function that performs no I/O (generateAnswer,                    *)
(* generateTerraformPlan) does not let another request's I/O callback run  *)
(* and stays inside the step.                                              *)
(*                                                                         *)
(* Date.now() is modelled as milliseconds since the process started.       *)
(***************************************************************************)
EXTENDS Integers, Sequences, FiniteSets, TLC

\* ------------------------------------------------------------------------
\* Bounds of the model
\* ------------------------------------------------------------------------
\* number of requests the server receives in one behaviour
MaxReqs == 3
\* number of one-millisecond clock steps within one ten-minute window
MaxSmallTicks == 2
\* number of ten-minute jumps of the clock
MaxBigTicks == 1
\* number of requests the server handles at the same time
MaxConcurrent == 2
\* number of requests of the specification with arbitrary fields
MaxInputReqs == 2
\* number of calls of cleanupOldWorkspaces in progress at the same time
MaxSweeps == 2
\* number of periods of the cleanup interval the clock runs through
MaxHours == 3
\* number of calls of executeTerraform in progress at the same time
MaxExecs == 1
\* number of calls of the helper functions on one request text
MaxCalls == 3

Reqs == 1..MaxReqs

Sweeps == 1..MaxSweeps

Execs == 1..MaxExecs

\* ------------------------------------------------------------------------
\* Program constants
\* ------------------------------------------------------------------------
\* 10 * 60 * 1000 in cleanupOldActions
TenMinutes == 600000
\* DurationSeconds of the role assumption of verify-role
VerifyDurationSeconds == 900
\* DurationSeconds of assumeRole()
AssumeDurationSeconds == 3600
\* 60 * 60 * 1000, the period of the cleanup interval
Hour == 3600000
\* / 1000 / 60 in cleanupOldWorkspaces
Minute == 60000
\* cleanupOldWorkspaces(60) of the interval callback
IntervalMaxAgeMinutes == 60
\* timeout: 300000 of execAsync
ExecTimeout == 300000
\* the length the validator requires of an external id
ExternalIdLength == 64
\* the number of digits of the account id in a role ARN
AccountIdLength == 12

\* ------------------------------------------------------------------------
\* Request inputs.  A string is held in the state as itself; Chars gives its
\* characters, on which the validator and the classifier compute.  The
\* empty string stands for an absent (undefined) or empty field: JavaScript
\* treats both as falsy.
\* ------------------------------------------------------------------------
Absent == ""
ArnA == "arn:aws:iam::123456789012:role/TerraformAIRole"
ArnB == "arn:aws:iam::210987654321:role/deploy.role-2"
ArnShortAccount == "arn:aws:iam::12345:role/TerraformAIRole"
ArnUser == "arn:aws:iam::123456789012:user/TerraformAIRole"
ExtA == "0123456789abcdef0123456789abcdef0123456789abcdef0123456789abcdef"
ExtB == "fedcba9876543210fedcba9876543210fedcba9876543210fedcba9876543210"
ExtUpper == "0123456789ABCDEF0123456789ABCDEF0123456789ABCDEF0123456789ABCDEF"
ExtShort == "0123456789abcdef0123456789abcdef0123456789abcdef0123456789abcde"
MsgInfo == "What is S3?"
MsgBucket == "create an s3 bucket"
MsgCache == "Please deploy a cache"
\* further texts for the classifier and the plan generator
TxtUpper == "BUILD ME AN S3 BUCKET"
TxtRemake == "remake the vpc"
TxtBucketOnly == "list my bucket"
TxtStatus == "s3 bucket status"
TxtReversed == "Provision a Bucket on S3"
TxtLaunch == "launch an ec2 instance"
TxtSpaces == "  setup s3 storage "
TxtTypo == "creat a bucket in s3"

\* texts of the failure answers of apply
ApplyFailedText == "Failed to create resources"
S3FailedText == "Failed to create S3 bucket: "

Chars(s) ==
  CASE s = ArnA ->
        <<"a","r","n",":","a","w","s",":","i","a","m",":",":","1","2","3","4",
        "5","6","7","8","9","0","1","2",":","r","o","l","e","/","T","e","r",
        "r","a","f","o","r","m","A","I","R","o","l","e">>
    [] s = ArnB ->
        <<"a","r","n",":","a","w","s",":","i","a","m",":",":","2","1","0","9",
        "8","7","6","5","4","3","2","1",":","r","o","l","e","/","d","e","p",
        "l","o","y",".","r","o","l","e","-","2">>
    [] s = ArnShortAccount ->
        <<"a","r","n",":","a","w","s",":","i","a","m",":",":","1","2","3","4",
        "5",":","r","o","l","e","/","T","e","r","r","a","f","o","r","m","A",
        "I","R","o","l","e">>
    [] s = ArnUser ->
        <<"a","r","n",":","a","w","s",":","i","a","m",":",":","1","2","3","4",
        "5","6","7","8","9","0","1","2",":","u","s","e","r","/","T","e","r",
        "r","a","f","o","r","m","A","I","R","o","l","e">>
    [] s = ExtA ->
        <<"0","1","2","3","4","5","6","7","8","9","a","b","c","d","e","f","0",
        "1","2","3","4","5","6","7","8","9","a","b","c","d","e","f","0","1",
        "2","3","4","5","6","7","8","9","a","b","c","d","e","f","0","1","2",
        "3","4","5","6","7","8","9","a","b","c","d","e","f">>
    [] s = ExtB ->
        <<"f","e","d","c","b","a","9","8","7","6","5","4","3","2","1","0","f",
        "e","d","c","b","a","9","8","7","6","5","4","3","2","1","0","f","e",
        "d","c","b","a","9","8","7","6","5","4","3","2","1","0","f","e","d",
        "c","b","a","9","8","7","6","5","4","3","2","1","0">>
    [] s = ExtUpper ->
        <<"0","1","2","3","4","5","6","7","8","9","A","B","C","D","E","F","0",
        "1","2","3","4","5","6","7","8","9","A","B","C","D","E","F","0","1",
        "2","3","4","5","6","7","8","9","A","B","C","D","E","F","0","1","2",
        "3","4","5","6","7","8","9","A","B","C","D","E","F">>
    [] s = ExtShort ->
        <<"0","1","2","3","4","5","6","7","8","9","a","b","c","d","e","f","0",
        "1","2","3","4","5","6","7","8","9","a","b","c","d","e","f","0","1",
        "2","3","4","5","6","7","8","9","a","b","c","d","e","f","0","1","2",
        "3","4","5","6","7","8","9","a","b","c","d","e">>
    [] s = MsgInfo ->
        <<"W","h","a","t"," ","i","s"," ","S","3","?">>
    [] s = MsgBucket ->
        <<"c","r","e","a","t","e"," ","a","n"," ","s","3"," ","b","u","c","k",
        "e","t">>
    [] s = MsgCache ->
        <<"P","l","e","a","s","e"," ","d","e","p","l","o","y"," ","a"," ","c",
        "a","c","h","e">>
    [] s = ApplyFailedText ->
        <<"F","a","i","l","e","d"," ","t","o"," ","c","r","e","a","t","e"," ",
        "r","e","s","o","u","r","c","e","s">>
    [] s = S3FailedText ->
        <<"F","a","i","l","e","d"," ","t","o"," ","c","r","e","a","t","e"," ",
        "S","3"," ","b","u","c","k","e","t",":"," ">>
    [] s = TxtUpper ->
        <<"B","U","I","L","D"," ","M","E"," ","A","N"," ","S","3"," ","B","U",
        "C","K","E","T">>
    [] s = TxtRemake ->
        <<"r","e","m","a","k","e"," ","t","h","e"," ","v","p","c">>
    [] s = TxtBucketOnly ->
        <<"l","i","s","t"," ","m","y"," ","b","u","c","k","e","t">>
    [] s = TxtStatus ->
        <<"s","3"," ","b","u","c","k","e","t"," ","s","t","a","t","u","s">>
    [] s = TxtReversed ->
        <<"P","r","o","v","i","s","i","o","n"," ","a"," ","B","u","c","k","e",
        "t"," ","o","n"," ","S","3">>
    [] s = TxtLaunch ->
        <<"l","a","u","n","c","h"," ","a","n"," ","e","c","2"," ","i","n","s",
        "t","a","n","c","e">>
    [] s = TxtSpaces ->
        <<" "," ","s","e","t","u","p"," ","s","3"," ","s","t","o","r","a","g",
        "e"," ">>
    [] s = TxtTypo ->
        <<"c","r","e","a","t"," ","a"," ","b","u","c","k","e","t"," ","i","n",
        " ","s","3">>
    [] OTHER -> << >>

RoleArns == {Absent, ArnA, ArnB, ArnShortAccount, ArnUser}
ExternalIds == {Absent, ExtA, ExtB, ExtUpper, ExtShort}
Messages == {Absent, MsgInfo, MsgBucket, MsgCache}
\* the texts the helper functions are applied to
Texts ==
  Messages \cup {TxtUpper, TxtRemake, TxtBucketOnly, TxtStatus, TxtReversed,
                  TxtLaunch, TxtSpaces, TxtTypo}
ChangeMessages == {MsgBucket, MsgCache}


\* ------------------------------------------------------------------------
\* String helpers (String.prototype.toLowerCase, String.prototype.includes)
\* ------------------------------------------------------------------------
UpperCase ==
  <<"A","B","C","D","E","F","G","H","I","J","K","L","M",
    "N","O","P","Q","R","S","T","U","V","W","X","Y","Z">>

LowerCase ==
  <<"a","b","c","d","e","f","g","h","i","j","k","l","m",
    "n","o","p","q","r","s","t","u","v","w","x","y","z">>

Digits == {"0","1","2","3","4","5","6","7","8","9"}

Range(seq) == {seq[i] : i \in 1..Len(seq)}

toLowerCase(cs) ==
  [i \in 1..Len(cs) |->
     IF \E k \in 1..26 : UpperCase[k] = cs[i]
       THEN LowerCase[CHOOSE k \in 1..26 : UpperCase[k] = cs[i]]
       ELSE cs[i]]

includes(cs, word) ==
  \E i \in 1..(Len(cs) - Len(word) + 1) :
     SubSeq(cs, i, i + Len(word) - 1) = word

\* ------------------------------------------------------------------------
\* backend/middleware/security.js : validateAwsCredentials
\* ------------------------------------------------------------------------
\* \w of a JavaScript regular expression
WordChars == Range(UpperCase) \cup Range(LowerCase) \cup Digits \cup {"_"}

\* the character class [\w+=,.@-]
RoleNameChars == WordChars \cup {"+", "=", ",", ".", "@", "-"}

\* the character class [a-f0-9]
HexChars == Digits \cup {"a","b","c","d","e","f"}

ArnPrefix == <<"a","r","n",":","a","w","s",":","i","a","m",":",":">>

ArnRole == <<":","r","o","l","e","/">>

\* /^arn:aws:iam::\d{12}:role\/[\w+=,.@-]+$/.test(roleArn)
arnPattern(cs) ==
  LET p == Len(ArnPrefix)
      a == p + AccountIdLength
      n == a + Len(ArnRole)
  IN  /\ Len(cs) > n
      /\ SubSeq(cs, 1, p) = ArnPrefix
      /\ \A i \in (p + 1)..a : cs[i] \in Digits
      /\ SubSeq(cs, a + 1, n) = ArnRole
      /\ \A i \in (n + 1)..Len(cs) : cs[i] \in RoleNameChars

\* /^[a-f0-9]{64}$/.test(externalId)
externalIdPattern(cs) ==
  /\ Len(cs) = ExternalIdLength
  /\ \A i \in 1..Len(cs) : cs[i] \in HexChars

\* a validator that tests both fields whether or not they are present
validatePresentFields(roleArn, externalId) ==
  /\ arnPattern(Chars(roleArn))
  /\ externalIdPattern(Chars(externalId))

\* the validator without its external id check
validateRoleArnOnly(roleArn, externalId) ==
  roleArn # Absent => arnPattern(Chars(roleArn))

\* TRUE when the validator calls next(), FALSE when it answers 400
validateAwsCredentials(roleArn, externalId) ==
  /\ (roleArn # Absent => arnPattern(Chars(roleArn)))
  /\ (externalId # Absent => externalIdPattern(Chars(externalId)))

\* the validator's verdict on every input pair, evaluated once
Validated ==
  [c \in RoleArns \X ExternalIds |-> validateAwsCredentials(c[1], c[2])]

\* The validator is mounted in front of the three routes (the server file
\* that mounts the router is not part of the sources; the interface
\* contract says malformed input is rejected before any external call).
PreFlight(roleArn, externalId) == Validated[<<roleArn, externalId>>]

\* ------------------------------------------------------------------------
\* backend/routes/terraform.js : pure helpers
\* ------------------------------------------------------------------------
CreationWords ==
  << <<"c","r","e","a","t","e">>, <<"d","e","p","l","o","y">>,
     <<"s","e","t","u","p">>, <<"b","u","i","l","d">>,
     <<"l","a","u","n","c","h">>, <<"m","a","k","e">>,
     <<"p","r","o","v","i","s","i","o","n">> >>

\* a classifier that takes the mention of a resource for a change-intent
classifyByResource(message) ==
  includes(toLowerCase(Chars(message)), <<"s","3">>)

\* lines 79-82 of the chat handler
classify(message) ==
  LET lowerMessage == toLowerCase(Chars(message))
  IN  \E k \in 1..Len(CreationWords) : includes(lowerMessage, CreationWords[k])

\* the classification of every message, evaluated once
Classified == [m \in Texts |-> classify(m)]

isCreationRequest(message) == Classified[message]

\* a rule that looks for the word bucket only
isBucketRequestByBucket(request) ==
  includes(toLowerCase(Chars(request)), <<"b","u","c","k","e","t">>)

\* line 255 of generateTerraformPlan
isBucketRequest(request) ==
  LET lowerRequest == toLowerCase(Chars(request))
  IN  /\ includes(lowerRequest, <<"s","3">>)
      /\ includes(lowerRequest, <<"b","u","c","k","e","t">>)

\* the rule every message matches, evaluated once
BucketRequests == {m \in Texts : isBucketRequest(m)}

\* the empty object {}
EmptyObject == [empty |-> TRUE]

\* `action_${Date.now()}`
ActionIdAt(t) == <<"action_", t>>

\* `terraform-ai-${Date.now()}`
BucketNameAt(t) == <<"terraform-ai-", t>>

\* generateTerraformPlan(request), called at clock value t
generateTerraformPlan(request, t) ==
  IF request \in BucketRequests
      THEN [resourceType |-> "s3-bucket",
            resourceConfig |-> [bucketName |-> BucketNameAt(t)],
            summary |-> "I'll create an S3 bucket in your AWS account with the following features:",
            terraformCode |-> <<"aws_s3_bucket", BucketNameAt(t), t>>,
            plan |-> <<"Plan: 3 to add, 0 to change, 0 to destroy.", BucketNameAt(t)>>,
            resources |-> <<"S3 Bucket with versioning enabled",
                            "Server-side encryption (AES256)",
                            "Resource tags for management">>,
            estimatedCost |-> "$0.023/month for 1GB storage. FREE for first 12 months (5GB free)",
            warnings |-> <<"You will be charged by AWS starting immediately",
                           "Bucket name must be globally unique",
                           "Delete all objects before deleting bucket",
                           "Data transfer costs $0.09/GB after 100GB/month",
                           "Run terraform destroy when done">>]
      ELSE [resourceType |-> "unknown",
            resourceConfig |-> EmptyObject,
            summary |-> "Please specify what AWS resource you want to create.",
            terraformCode |-> <<"# Specify resource type">>,
            plan |-> <<"No plan available">>,
            resources |-> << >>,
            estimatedCost |-> "Unknown",
            warnings |-> <<"Specify a valid resource type">>]

\* the keys of knowledgeBase in generateAnswer, in insertion order
KnowledgeKeys ==
  << <<"s","3">>, <<"e","c","2">>, <<"l","a","m","b","d","a">>,
     <<"v","p","c">>, <<"p","r","i","c","i","n","g">>,
     <<"t","e","r","r","a","f","o","r","m">> >>

\* generateAnswer(question): the answer of the first key the question
\* contains (the answer text is represented by its key), else the default
answer(question) ==
  LET lowerQuestion == toLowerCase(Chars(question))
      hits == {k \in 1..Len(KnowledgeKeys) : includes(lowerQuestion, KnowledgeKeys[k])}
  IN  IF hits = {} THEN <<"default">>
      ELSE KnowledgeKeys[CHOOSE k \in hits : \A j \in hits : k <= j]

\* the answer to every message, evaluated once
Answers == [m \in Messages |-> answer(m)]

generateAnswer(question) == Answers[question]

\* ------------------------------------------------------------------------
\* State
\* ------------------------------------------------------------------------
VARIABLES
  now,              \* Date.now()
  pendingActions,   \* the Map of staged actions, keyed by actionId
  reqs,             \* the requests: inputs, position, locals, calls and
                    \* their answers, response
  workspaces,       \* the directories under WORKSPACE_BASE: name -> mtimeMs
  sweeps,           \* the calls of cleanupOldWorkspaces: position and locals
  execs,            \* the calls of executeTerraform and generateTerraformFiles
  timer,            \* the instant the setInterval callback is due next
  userText,         \* the text given to the helper functions
  returned          \* what the calls of the helper functions returned

routerVars == <<pendingActions, reqs>>

executorVars == <<workspaces, sweeps, execs, timer>>

helperVars == <<userText, returned>>

vars ==
  <<now, pendingActions, reqs, workspaces, sweeps, execs, timer, userText,
    returned>>

\* the value of a variable that holds undefined
Undefined == [undefined |-> TRUE]

NoActionId == << >>

\* an actionId no chat response ever returned
UnknownActionId == <<"action_", -1>>

NoResponse == [status |-> 0]

Idle ==
  [kind |-> "none", pc |-> "idle",
   message |-> Absent, roleArn |-> Absent, externalId |-> Absent,
   actionId |-> NoActionId, arrived |-> 0,
   pendingAction |-> Undefined, credentials |-> Undefined,
   calls |-> << >>, answers |-> << >>, response |-> NoResponse]

\* no call of cleanupOldWorkspaces in this slot: none was made yet, or the
\* last one has returned
IdleSweep ==
  [pc |-> "idle", maxAgeMinutes |-> 0, now |-> 0, workspaces |-> << >>,
   i |-> 0]

\* no call of executeTerraform in this slot yet
IdleExec ==
  [pc |-> "idle", caller |-> "none", workDir |-> Absent, command |-> Absent,
   spawned |-> FALSE, overdue |-> FALSE, stdout |-> << >>, outcome |-> "none",
   result |-> Undefined, generated |-> Undefined, written |-> {}]

\* the router before any request
InitRouter ==
  /\ pendingActions = [a \in {} |-> Undefined]
  /\ reqs = [r \in Reqs |-> Idle]

\* terraformExecutor.js when it is loaded: no workspace yet, the interval
\* of line 262 registered
InitExecutor ==
  /\ workspaces = [w \in {} |-> 0]
  /\ sweeps = [s \in Sweeps |-> IdleSweep]
  /\ execs = [e \in Execs |-> IdleExec]
  /\ timer = Hour

Init ==
  /\ now = 0
  /\ InitRouter
  /\ InitExecutor
  /\ userText = Absent
  /\ returned = << >>

\* requests arrive one by one: slot r is used after slot r - 1
InFlight == {q \in Reqs : reqs[q].pc \notin {"idle", "done"}}

CanArrive(r) ==
  /\ reqs[r].kind = "none"
  /\ r > 1 => reqs[r - 1].kind # "none"
  /\ Cardinality(InFlight) < MaxConcurrent

\* ------------------------------------------------------------------------
\* The clock
\* ------------------------------------------------------------------------
Tick ==
  /\ (now % TenMinutes) < MaxSmallTicks
  /\ now' = now + 1
  /\ UNCHANGED <<routerVars, executorVars, helperVars>>

\* ten minutes pass between requests: a round trip to the provider takes
\* far less
TickTenMinutes ==
  /\ (now \div TenMinutes) < MaxBigTicks
  /\ InFlight = {}
  /\ now' = now + TenMinutes
  /\ UNCHANGED <<routerVars, executorVars, helperVars>>

\* a millisecond less than ten minutes passes between requests
TickNearlyTenMinutes ==
  /\ (now \div TenMinutes) < MaxBigTicks
  /\ (now % TenMinutes) > 0
  /\ InFlight = {}
  /\ now' = now + TenMinutes - 1
  /\ UNCHANGED <<routerVars, executorVars, helperVars>>

\* ------------------------------------------------------------------------
\* The external provider (STS, S3): what a call can answer
\* ------------------------------------------------------------------------
StsOutcomes == {"ok", "AccessDenied", "ExpiredToken"}

\* createBucket can refuse the name; every step can be denied
S3Outcomes(op) ==
  IF op = "createBucket"
    THEN {"ok", "BucketAlreadyExists", "InvalidBucketName", "AccessDenied"}
    ELSE {"ok", "AccessDenied"}

\* Credentials of the response of sts.assumeRole to request r: every
\* response carries a fresh session
StsCredentials(r, durationSeconds) ==
  [AccessKeyId |-> <<"ASIA", r>>,
   SecretAccessKey |-> <<"secret", r>>,
   SessionToken |-> <<"token", r>>,
   Expiration |-> <<"expires", r, durationSeconds>>]

\* the account a role ARN belongs to: the digits after arn:aws:iam::
AccountOf(roleArn) ==
  SubSeq(Chars(roleArn), Len(ArnPrefix) + 1, Len(ArnPrefix) + AccountIdLength)

\* what sts.getCallerIdentity answers to a session of the role: the account
\* the role belongs to
CallerIdentity(roleArn) == [code |-> "ok", Account |-> AccountOf(roleArn)]

\* ------------------------------------------------------------------------
\* Map operations
\* ------------------------------------------------------------------------
MapSet(m, k, v) == [x \in (DOMAIN m) \cup {k} |-> IF x = k THEN v ELSE m[x]]

MapDelete(m, k) == [x \in (DOMAIN m) \ {k} |-> m[x]]

\* a sweep that also removes an entry of exactly ten minutes
cleanupOldActionsInclusive(m, t) ==
  LET tenMinutesAgo == t - TenMinutes
  IN  [x \in {k \in DOMAIN m : ~(m[k].timestamp <= tenMinutesAgo)} |-> m[x]]

\* cleanupOldActions(), run on map m at clock value t
cleanupOldActions(m, t) ==
  LET tenMinutesAgo == t - TenMinutes
  IN  [x \in {k \in DOMAIN m : ~(m[k].timestamp < tenMinutesAgo)} |-> m[x]]

\* A call to the provider is a network round trip: its answer arrives at a
\* later clock value than the one at which the request arrived.
RoundTripOver(req) == now > req.arrived

\* ------------------------------------------------------------------------
\* Shared pieces of the handlers
\* ------------------------------------------------------------------------
Arrived(kind, message, actionId, roleArn, externalId) ==
  [Idle EXCEPT !.kind = kind, !.pc = "start", !.message = message,
               !.actionId = actionId, !.roleArn = roleArn,
               !.externalId = externalId, !.arrived = now]

Respond(req, resp) ==
  [req EXCEPT !.pc = "done", !.response = resp, !.arrived = 0]

Issue(req, op, call) ==
  [req EXCEPT !.pc = op, !.calls = Append(req.calls, call)]

\* the pending call of the request is answered: "ok" for a resolved
\* promise, the error code for a rejected one
Settled(code) == [code |-> code]

Ok == Settled("ok")

Answered(req, settled) ==
  [req EXCEPT !.answers = Append(req.answers, settled)]

\* the 400 answers of validateAwsCredentials
ValidatorResponse(roleArn, externalId) ==
  IF roleArn # Absent /\ ~arnPattern(Chars(roleArn))
    THEN [status |-> 400, error |-> "Invalid Role ARN format"]
    ELSE [status |-> 400, error |-> "Invalid External ID format"]

\* the sts.assumeRole call of assumeRole(roleArn, externalId), lines 205-219
AssumeRoleCall(roleArn, externalId) ==
  [op |-> "assumeRole", RoleArn |-> roleArn,
   RoleSessionName |-> "terraform-ai-",
   ExternalId |-> externalId, DurationSeconds |-> AssumeDurationSeconds]

\* the value assumeRole() returns, lines 221-226
assumeRole(assumedRole) ==
  [accessKeyId |-> assumedRole.AccessKeyId,
   secretAccessKey |-> assumedRole.SecretAccessKey,
   sessionToken |-> assumedRole.SessionToken,
   expiration |-> assumedRole.Expiration]

\* the message of the error assumeRole() throws, line 228
AssumeRoleError(code) == <<"Failed to assume role: ", code>>

\* ------------------------------------------------------------------------
\* POST /auth/verify-role, lines 9-66
\* ------------------------------------------------------------------------
VerifyError(code) ==
  IF code = "AccessDenied"
    THEN "Access denied. Please check that: 1. Role ARN is correct 2. External ID matches 3. Trust relationship is configured correctly"
    ELSE "Failed to assume role"

\* the request arrives and runs up to the await of sts.assumeRole
VerifyRole(r, roleArn, externalId) ==
  LET req == Arrived("verify", Absent, NoActionId, roleArn, externalId)
  IN  /\ CanArrive(r)
      /\ reqs' = [reqs EXCEPT ![r] =
           IF ~PreFlight(roleArn, externalId)
             THEN Respond(req, ValidatorResponse(roleArn, externalId))
           ELSE IF roleArn = Absent \/ externalId = Absent
             THEN Respond(req, [status |-> 400, valid |-> FALSE,
                                error |-> "Role ARN and External ID are required"])
           ELSE Issue(req, "assumeRole",
                      [op |-> "assumeRole", RoleArn |-> roleArn,
                       RoleSessionName |-> "verification-",
                       ExternalId |-> externalId,
                       DurationSeconds |-> VerifyDurationSeconds])]
      /\ UNCHANGED <<now, pendingActions, executorVars, helperVars>>

\* a verification that keeps the assumed session in the ledger for later
\* requests
VerifyAssumedCached(r, outcome) ==
  LET req == Answered(reqs[r], Settled(outcome))
      assumedRole == StsCredentials(r, VerifyDurationSeconds)
      tempSts == [accessKeyId |-> assumedRole.AccessKeyId,
                  secretAccessKey |-> assumedRole.SecretAccessKey,
                  sessionToken |-> assumedRole.SessionToken]
  IN  /\ req.kind = "verify" /\ req.pc = "assumeRole"
      /\ RoundTripOver(req)
      /\ reqs' = [reqs EXCEPT ![r] =
           IF outcome = "ok"
             THEN Issue([req EXCEPT !.credentials = tempSts], "getCallerIdentity",
                        [op |-> "getCallerIdentity", client |-> tempSts])
             ELSE Respond(req, [status |-> 200, valid |-> FALSE,
                                error |-> VerifyError(outcome)])]
      /\ pendingActions' =
           IF outcome = "ok"
             THEN MapSet(pendingActions, <<"session_", now>>,
                         [message |-> Absent, roleArn |-> req.roleArn,
                          externalId |-> req.externalId,
                          resourceType |-> "session",
                          resourceConfig |-> tempSts, timestamp |-> now])
             ELSE pendingActions
      /\ UNCHANGED <<now, executorVars, helperVars>>

\* sts.assumeRole answers; on success the identity check is issued with the
\* assumed session
VerifyAssumed(r, outcome) ==
  LET req == Answered(reqs[r], Settled(outcome))
      assumedRole == StsCredentials(r, VerifyDurationSeconds)
      tempSts == [accessKeyId |-> assumedRole.AccessKeyId,
                  secretAccessKey |-> assumedRole.SecretAccessKey,
                  sessionToken |-> assumedRole.SessionToken]
  IN  /\ req.kind = "verify" /\ req.pc = "assumeRole"
      /\ RoundTripOver(req)
      /\ reqs' = [reqs EXCEPT ![r] =
           IF outcome = "ok"
             THEN Issue([req EXCEPT !.credentials = tempSts], "getCallerIdentity",
                        [op |-> "getCallerIdentity", client |-> tempSts])
             ELSE Respond(req, [status |-> 200, valid |-> FALSE,
                                error |-> VerifyError(outcome)])]
      /\ UNCHANGED <<now, pendingActions, executorVars, helperVars>>

\* a verification that reports the account of the role ARN whatever the
\* identity check answered
VerifyIdentifiedUnchecked(r, outcome) ==
  LET identity == CallerIdentity(reqs[r].roleArn)
      req == Answered(reqs[r], IF outcome = "ok" THEN identity
                               ELSE Settled(outcome))
  IN  /\ reqs[r].kind = "verify" /\ reqs[r].pc = "getCallerIdentity"
      /\ reqs' = [reqs EXCEPT ![r] =
           Respond(req, [status |-> 200, valid |-> TRUE,
                         accountId |-> identity.Account,
                         message |-> "Successfully verified IAM Role"])]
      /\ UNCHANGED <<now, pendingActions, executorVars, helperVars>>

\* getCallerIdentity answers
VerifyIdentified(r, outcome) ==
  LET identity == CallerIdentity(reqs[r].roleArn)
      req == Answered(reqs[r], IF outcome = "ok" THEN identity
                               ELSE Settled(outcome))
  IN  /\ reqs[r].kind = "verify" /\ reqs[r].pc = "getCallerIdentity"
      /\ reqs' = [reqs EXCEPT ![r] =
           IF outcome = "ok"
             THEN Respond(req, [status |-> 200, valid |-> TRUE,
                                accountId |-> identity.Account,
                                message |-> "Successfully verified IAM Role"])
             ELSE Respond(req, [status |-> 200, valid |-> FALSE,
                                error |-> VerifyError(outcome)])]
      /\ UNCHANGED <<now, pendingActions, executorVars, helperVars>>

\* ------------------------------------------------------------------------
\* POST /chat, lines 69-146
\* ------------------------------------------------------------------------
\* a test that looks at the roleArn only
NoRoleArn(roleArn, externalId) == roleArn = Absent

\* !roleArn || !externalId, line 94
NoRoleReference(roleArn, externalId) == roleArn = Absent \/ externalId = Absent

\* the request arrives and runs up to the await of assumeRole
Chat(r, message, roleArn, externalId) ==
  LET req == Arrived("chat", message, NoActionId, roleArn, externalId)
  IN  /\ CanArrive(r)
      /\ reqs' = [reqs EXCEPT ![r] =
           IF ~PreFlight(roleArn, externalId)
             THEN Respond(req, ValidatorResponse(roleArn, externalId))
           ELSE IF message = Absent
             THEN Respond(req, [status |-> 400, error |-> "Message is required"])
           ELSE IF ~isCreationRequest(message)
             THEN Respond(req, [status |-> 200,
                                message |-> generateAnswer(message),
                                requiresConfirmation |-> FALSE])
           ELSE IF NoRoleReference(roleArn, externalId)
             THEN Respond(req, [status |-> 401,
                                error |-> "AWS connection required",
                                message |-> "Please setup AWS connection to create resources"])
           ELSE Issue(req, "assumeRole", AssumeRoleCall(roleArn, externalId))]
      /\ UNCHANGED <<now, pendingActions, executorVars, helperVars>>

\* an entry that also keeps the credentials variable of the request
StagedEntryWithSession(req, result) ==
  [message |-> req.message,
   roleArn |-> req.roleArn,
   externalId |-> req.externalId,
   resourceType |-> result.resourceType,
   resourceConfig |-> result.resourceConfig,
   credentials |-> req.credentials,
   timestamp |-> now]

\* the entry the chat handler stores, lines 115-122
StagedEntry(req, result) ==
  [message |-> req.message,
   roleArn |-> req.roleArn,
   externalId |-> req.externalId,
   resourceType |-> result.resourceType,
   resourceConfig |-> result.resourceConfig,
   timestamp |-> now]

\* the actionId of a staged action, line 114
NewActionId == ActionIdAt(now)

\* a refusal that runs the sweep of the ledger all the same
ChatRefusedSwept(r, outcome) ==
  LET req == Answered(reqs[r], Settled(outcome))
  IN  /\ req.kind = "chat" /\ req.pc = "assumeRole"
      /\ RoundTripOver(req)
      /\ outcome # "ok"
      /\ pendingActions' = cleanupOldActions(pendingActions, now)
      /\ reqs' = [reqs EXCEPT ![r] =
           Respond(req, [status |-> 401, error |-> "Failed to assume role",
                         message |-> AssumeRoleError(outcome)])]
      /\ UNCHANGED <<now, executorVars, helperVars>>

\* assumeRole failed: 401, nothing staged
ChatRefused(r, outcome) ==
  LET req == Answered(reqs[r], Settled(outcome))
  IN  /\ req.kind = "chat" /\ req.pc = "assumeRole"
      /\ RoundTripOver(req)
      /\ outcome # "ok"
      /\ reqs' = [reqs EXCEPT ![r] =
           Respond(req, [status |-> 401, error |-> "Failed to assume role",
                         message |-> AssumeRoleError(outcome)])]
      /\ UNCHANGED <<now, pendingActions, executorVars, helperVars>>

\* a stage that waits until no other request is being handled
ChatStagedSerialized(r) ==
  LET req == Answered(reqs[r], Ok)
      result == generateTerraformPlan(req.message, now)
      actionId == NewActionId
  IN  /\ req.kind = "chat" /\ req.pc = "assumeRole"
      /\ RoundTripOver(req)
      /\ InFlight = {r}
      /\ pendingActions' =
           cleanupOldActions(MapSet(pendingActions, actionId,
                                    StagedEntry(req, result)), now)
      /\ reqs' = [reqs EXCEPT ![r] =
           Respond(req, [status |-> 200, requiresConfirmation |-> TRUE,
                         actionId |-> actionId,
                         message |-> result.summary,
                         terraformCode |-> result.terraformCode,
                         plan |-> result.plan,
                         resources |-> result.resources,
                         estimatedCost |-> result.estimatedCost,
                         warnings |-> result.warnings])]
      /\ UNCHANGED <<now, executorVars, helperVars>>

\* assumeRole succeeded: generate the plan, stage it, sweep, answer
ChatStaged(r) ==
  LET req == Answered(reqs[r], Ok)
      result == generateTerraformPlan(req.message, now)
      actionId == NewActionId
  IN  /\ req.kind = "chat" /\ req.pc = "assumeRole"
      /\ RoundTripOver(req)
      /\ pendingActions' =
           cleanupOldActions(MapSet(pendingActions, actionId,
                                    StagedEntry(req, result)), now)
      /\ reqs' = [reqs EXCEPT ![r] =
           Respond(req, [status |-> 200, requiresConfirmation |-> TRUE,
                         actionId |-> actionId,
                         message |-> result.summary,
                         terraformCode |-> result.terraformCode,
                         plan |-> result.plan,
                         resources |-> result.resources,
                         estimatedCost |-> result.estimatedCost,
                         warnings |-> result.warnings])]
      /\ UNCHANGED <<now, executorVars, helperVars>>

\* ------------------------------------------------------------------------
\* POST /apply, lines 149-198, with createAWSResource and createS3Bucket
\* ------------------------------------------------------------------------
\* the steps of createS3Bucket with the tags applied before the settings
DriverStepsTagsFirst ==
  <<"createBucket", "putBucketTagging", "putBucketVersioning",
    "putBucketEncryption">>

\* a driver that issues createBucket a second time
DriverStepsRetried ==
  <<"createBucket", "createBucket", "putBucketVersioning",
    "putBucketEncryption", "putBucketTagging">>

\* the steps of createS3Bucket, in the order of the code
DriverSteps ==
  <<"createBucket", "putBucketVersioning", "putBucketEncryption",
    "putBucketTagging">>

StepIndex(op) == CHOOSE i \in 1..Len(DriverSteps) : DriverSteps[i] = op

\* new AWS.S3({...}) of createS3Bucket, lines 362-367
S3Client(credentials) ==
  [accessKeyId |-> credentials.accessKeyId,
   secretAccessKey |-> credentials.secretAccessKey,
   sessionToken |-> credentials.sessionToken,
   region |-> "us-east-1"]

\* the broker's own long-lived credentials in place of the assumed session
ApplyCredentialsOfBroker(req) ==
  [accessKeyId |-> <<"AKIA", 0>>,
   secretAccessKey |-> <<"secret", 0>>,
   sessionToken |-> <<"token", 0>>]

\* the credentials the apply handler passes to createAWSResource, line 177
ApplyCredentials(req) == req.credentials

DriverCall(op, config, credentials) ==
  [op |-> op, Bucket |-> config.bucketName, client |-> S3Client(credentials)]

\* the catch of the apply handler, lines 190-197
ApplyFailed(message) ==
  [status |-> 500, success |-> FALSE,
   error |-> ApplyFailedText, message |-> message]

\* the error createS3Bucket throws, lines 434-446
S3Error(code, config) ==
  IF code = "BucketAlreadyExists"
    THEN <<"Bucket name is already taken globally", config.bucketName>>
  ELSE IF code = "InvalidBucketName"
    THEN <<"Invalid bucket name", config.bucketName>>
  ELSE <<S3FailedText, code>>

\* a result that reports the name a plan made at clock value 0 would have
\* in place of the name of the bucket that was created
S3ResultOfTemplate(config) ==
  [resourceId |-> BucketNameAt(0),
   message |-> <<"Successfully created S3 bucket!", BucketNameAt(0)>>,
   outputs |-> [bucket_name |-> BucketNameAt(0),
                bucket_region |-> "us-east-1",
                bucket_arn |-> <<"arn:aws:s3:::", BucketNameAt(0)>>,
                console_url |-> <<"https://s3.console.aws.amazon.com/s3/buckets/",
                                  BucketNameAt(0)>>,
                created_at |-> "toISOString"]]

\* the value createS3Bucket returns, lines 420-432
S3Result(config) ==
  [resourceId |-> config.bucketName,
   message |-> <<"Successfully created S3 bucket!", config.bucketName>>,
   outputs |-> [bucket_name |-> config.bucketName,
                bucket_region |-> "us-east-1",
                bucket_arn |-> <<"arn:aws:s3:::", config.bucketName>>,
                console_url |-> <<"https://s3.console.aws.amazon.com/s3/buckets/",
                                  config.bucketName>>,
                created_at |-> "toISOString"]]

\* a lookup that falls back to some staged entry when the id is unknown
LookupOrAny(actionId) ==
  IF actionId \in DOMAIN pendingActions THEN pendingActions[actionId]
  ELSE IF DOMAIN pendingActions = {} THEN Undefined
  ELSE pendingActions[CHOOSE a \in DOMAIN pendingActions : TRUE]

\* pendingActions.get(actionId), line 159
Lookup(actionId) ==
  IF actionId \in DOMAIN pendingActions
    THEN pendingActions[actionId] ELSE Undefined

\* a successful execution that leaves the entry in place
ConsumedNothing(actionId) == pendingActions

\* the ledger after a successful execution, line 180
Consumed(actionId) == MapDelete(pendingActions, actionId)

\* the actionIds a client can send: none, one it never received, or one a
\* chat response returned
ReturnedActionIds ==
  {reqs[q].response.actionId :
     q \in {p \in Reqs : /\ reqs[p].kind = "chat"
                         /\ reqs[p].response.status = 200
                         /\ reqs[p].response.requiresConfirmation}}

ActionIdInputs == {NoActionId, UnknownActionId} \cup ReturnedActionIds

\* the request arrives and runs up to the await of assumeRole
Apply(r, actionId, roleArn, externalId) ==
  LET req == Arrived("apply", Absent, actionId, roleArn, externalId)
      pendingAction == Lookup(actionId)
  IN  /\ CanArrive(r)
      /\ reqs' = [reqs EXCEPT ![r] =
           IF ~PreFlight(roleArn, externalId)
             THEN Respond(req, ValidatorResponse(roleArn, externalId))
           ELSE IF actionId = NoActionId \/ roleArn = Absent \/ externalId = Absent
             THEN Respond(req, [status |-> 400,
                                error |-> "Missing required parameters"])
           ELSE IF pendingAction = Undefined
             THEN Respond(req, [status |-> 404,
                                error |-> "Action not found or expired"])
           ELSE Issue([req EXCEPT !.pendingAction = pendingAction],
                      "assumeRole", AssumeRoleCall(roleArn, externalId))]
      /\ UNCHANGED <<now, pendingActions, executorVars, helperVars>>

\* an apply that gives the staged action up when the role assumption fails
ApplyAssumedConsuming(r, outcome) ==
  LET req == Answered(reqs[r], Settled(outcome))
      got == [req EXCEPT !.credentials = assumeRole(StsCredentials(r, AssumeDurationSeconds))]
      pendingAction == req.pendingAction
  IN  /\ req.kind = "apply" /\ req.pc = "assumeRole"
      /\ RoundTripOver(req)
      /\ reqs' = [reqs EXCEPT ![r] =
           IF outcome # "ok"
             THEN Respond(req, ApplyFailed(AssumeRoleError(outcome)))
           ELSE IF pendingAction.resourceType = "s3-bucket"
             THEN Issue(got, DriverSteps[1],
                        DriverCall(DriverSteps[1], pendingAction.resourceConfig,
                                   ApplyCredentials(got)))
           ELSE Respond(got, ApplyFailed(<<"Unsupported resource type: ",
                                           pendingAction.resourceType>>))]
      /\ pendingActions' = IF outcome # "ok" THEN Consumed(req.actionId)
                                             ELSE pendingActions
      /\ UNCHANGED <<now, executorVars, helperVars>>

\* assumeRole answers; on success createAWSResource starts the driver
ApplyAssumed(r, outcome) ==
  LET req == Answered(reqs[r], Settled(outcome))
      got == [req EXCEPT !.credentials = assumeRole(StsCredentials(r, AssumeDurationSeconds))]
      pendingAction == req.pendingAction
  IN  /\ req.kind = "apply" /\ req.pc = "assumeRole"
      /\ RoundTripOver(req)
      /\ reqs' = [reqs EXCEPT ![r] =
           IF outcome # "ok"
             THEN Respond(req, ApplyFailed(AssumeRoleError(outcome)))
           ELSE IF pendingAction.resourceType = "s3-bucket"
             THEN Issue(got, DriverSteps[1],
                        DriverCall(DriverSteps[1], pendingAction.resourceConfig,
                                   ApplyCredentials(got)))
           ELSE Respond(got, ApplyFailed(<<"Unsupported resource type: ",
                                           pendingAction.resourceType>>))]
      /\ UNCHANGED <<now, pendingActions, executorVars, helperVars>>

\* a step of createS3Bucket fails: the driver throws, apply answers 500
DriverStepFailed(r, outcome) ==
  LET req == Answered(reqs[r], Settled(outcome))
  IN  /\ req.kind = "apply" /\ req.pc \in Range(DriverSteps)
      /\ outcome \in S3Outcomes(req.pc) \ {"ok"}
      /\ reqs' = [reqs EXCEPT ![r] =
           Respond(req, ApplyFailed(S3Error(outcome, req.pendingAction.resourceConfig)))]
      /\ UNCHANGED <<now, pendingActions, executorVars, helperVars>>

\* a step of createS3Bucket other than the last succeeds: the next is issued
DriverStepDone(r) ==
  LET req == Answered(reqs[r], Ok)
      i == StepIndex(req.pc)
  IN  /\ req.kind = "apply" /\ req.pc \in Range(DriverSteps)
      /\ i < Len(DriverSteps)
      /\ reqs' = [reqs EXCEPT ![r] =
           Issue(req, DriverSteps[i + 1],
                 DriverCall(DriverSteps[i + 1], req.pendingAction.resourceConfig,
                            ApplyCredentials(req)))]
      /\ UNCHANGED <<now, pendingActions, executorVars, helperVars>>

\* the last step succeeds: the entry is deleted and apply answers success
ApplySucceeded(r) ==
  LET req == Answered(reqs[r], Ok)
      result == S3Result(req.pendingAction.resourceConfig)
  IN  /\ req.kind = "apply" /\ req.pc = DriverSteps[Len(DriverSteps)]
      /\ pendingActions' = Consumed(req.actionId)
      /\ reqs' = [reqs EXCEPT ![r] =
           Respond(req, [status |-> 200, success |-> TRUE,
                         message |-> result.message,
                         outputs |-> result.outputs])]
      /\ UNCHANGED <<now, executorVars, helperVars>>

\* ------------------------------------------------------------------------
\* Specification
\* ------------------------------------------------------------------------
\* what the external provider does: a pending call is answered
\* (the error codes the provider answers with are those of outcomes)
VerifyAnswers ==
  \/ \E r \in Reqs, outcome \in StsOutcomes : VerifyAssumed(r, outcome)
  \/ \E r \in Reqs, outcome \in StsOutcomes : VerifyIdentified(r, outcome)

ChatAnswers(outcomes) ==
  \/ \E r \in Reqs, outcome \in StsOutcomes \cap outcomes :
        ChatRefused(r, outcome)
  \/ \E r \in Reqs : ChatStaged(r)

ApplyAnswers(outcomes) ==
  \/ \E r \in Reqs, outcome \in StsOutcomes \cap outcomes :
        ApplyAssumed(r, outcome)
  \/ \E r \in Reqs, outcome \in S3Outcomes("createBucket") \cap outcomes :
        DriverStepFailed(r, outcome)
  \/ \E r \in Reqs : DriverStepDone(r)
  \/ \E r \in Reqs : ApplySucceeded(r)

\* every code the handlers tell apart
AllOutcomes == StsOutcomes \cup S3Outcomes("createBucket")

\* the provider answers or denies access
AccessOutcomes == {"ok", "AccessDenied"}

\* The staging protocol under a connected client: it asks for changes and
\* confirms actionIds it received, always with its own well-formed role
\* reference; the provider answers or denies access.
Next ==
  \/ Tick
  \/ TickTenMinutes
  \/ TickNearlyTenMinutes
  \/ \E r \in Reqs, message \in ChangeMessages :
        Chat(r, message, ArnA, ExtA)
  \/ \E r \in Reqs, actionId \in ReturnedActionIds :
        Apply(r, actionId, ArnA, ExtA)
  \/ ChatAnswers(AccessOutcomes)
  \/ ApplyAnswers(AccessOutcomes)

Spec == Init /\ [][Next]_vars

\* The three routes under arbitrary fields: MaxInputReqs requests arrive, the
\* earlier ones from the connected client, the last one with any fields
\* (absent, malformed or well-formed).  The clock advances as far as the
\* requests need it: by a millisecond while a provider call is awaited, and
\* by more than ten minutes between requests, so that a staged action has
\* expired; the exact ten-minute boundary is followed under Spec.
ArriveVerify(r) ==
  \E roleArn \in RoleArns, externalId \in ExternalIds :
     VerifyRole(r, roleArn, externalId)

ArriveChat(r) ==
  \E message \in Messages, roleArn \in RoleArns, externalId \in ExternalIds :
     Chat(r, message, roleArn, externalId)

ArriveApply(r) ==
  \E actionId \in ActionIdInputs, roleArn \in RoleArns,
     externalId \in ExternalIds : Apply(r, actionId, roleArn, externalId)

ArriveConnected(r) ==
  \/ VerifyRole(r, ArnA, ExtA)
  \/ \E message \in ChangeMessages : Chat(r, message, ArnA, ExtA)
  \/ \E actionId \in ReturnedActionIds : Apply(r, actionId, ArnA, ExtA)

\* a millisecond passes while a provider call is awaited
TickAwaited ==
  /\ \E q \in InFlight : reqs[q].arrived = now
  /\ now' = now + 1
  /\ UNCHANGED <<routerVars, executorVars, helperVars>>

\* more than ten minutes pass between requests
TickPastTenMinutes ==
  /\ (now \div TenMinutes) < MaxBigTicks
  /\ InFlight = {}
  /\ now' = now + TenMinutes + 1
  /\ UNCHANGED <<routerVars, executorVars, helperVars>>

NextInputs ==
  \/ TickAwaited
  \/ TickPastTenMinutes
  \/ \E r \in 1..MaxInputReqs :
        /\ CanArrive(r)
        /\ IF r = MaxInputReqs
             THEN ArriveVerify(r) \/ ArriveChat(r) \/ ArriveApply(r)
             ELSE ArriveConnected(r)
  \/ VerifyAnswers
  \/ ChatAnswers(AllOutcomes)
  \/ ApplyAnswers(AllOutcomes)

SpecInputs == Init /\ [][NextInputs]_vars

\* The staging protocol with time passing and every awaited provider call
\* settling: the clock advances on its own and a handler suspended at an await
\* is resumed; no client is obliged to send a further request.
SpecLive ==
  /\ Init
  /\ [][Next]_vars
  /\ WF_vars(Tick)
  /\ WF_vars(TickTenMinutes)
  /\ WF_vars(TickNearlyTenMinutes)
  /\ WF_vars(ChatAnswers(AccessOutcomes))
  /\ WF_vars(ApplyAnswers(AccessOutcomes))

\* ------------------------------------------------------------------------
\* backend/utils/terraformExecutor.js
\*
\* The module exports generateTerraformFiles, executeTerraform and
\* cleanupOldWorkspaces, and registers an interval that calls
\* cleanupOldWorkspaces(60) every hour.  A function is split at its awaits
\* of the file system and of the child process; the awaits of
\* ensureWorkspaceDir (the base directory exists) and the consecutive writes
\* of generateTerraformFiles into its own directory stay inside one step.
\* ------------------------------------------------------------------------
\* the names callers give their workspaces (the actionId)
WorkspaceNames == {"action_a", "action_b"}

\* the switch of executeTerraform, lines 194-212
KnownCommands == {"init", "plan", "apply", "destroy", "output"}

Commands == KnownCommands \cup {"validate"}

\* the thresholds callers pass to cleanupOldWorkspaces
MaxAges == {10, IntervalMaxAgeMinutes}

\* the orders in which readdir can list the directories of S
Orders(S) ==
  {order \in [1..Cardinality(S) -> S] :
     \A i, j \in 1..Cardinality(S) : i # j => order[i] # order[j]}

\* ageMinutes > maxAgeMinutes, lines 249-251, with now the value read at
\* line 244
IsOld(sweep, mtimeMs) == (sweep.now - mtimeMs) > sweep.maxAgeMinutes * Minute

\* the next iteration of the loop of line 246, or its end
Iterate(sweep, i) ==
  IF i > Len(sweep.workspaces)
    THEN IdleSweep
    ELSE [sweep EXCEPT !.pc = "stat", !.i = i]

\* the catch of cleanupOldWorkspaces, lines 256-258: the error is logged and
\* the function returns
CleanupCaught(sweep) == IdleSweep

\* cleanupOldWorkspaces(maxAgeMinutes) up to the await of readdir
CleanupStarted(maxAgeMinutes) ==
  [IdleSweep EXCEPT !.pc = "readdir", !.maxAgeMinutes = maxAgeMinutes]

CanSweep(s) ==
  /\ sweeps[s].pc = "idle"
  /\ \A q \in 1..(s - 1) : sweeps[q].pc # "idle"

\* the callback of setInterval, lines 262-264
IntervalFires(s) ==
  /\ now = timer
  /\ CanSweep(s)
  /\ timer' = timer + Hour
  /\ sweeps' = [sweeps EXCEPT ![s] = CleanupStarted(IntervalMaxAgeMinutes)]
  /\ UNCHANGED <<now, routerVars, workspaces, execs, helperVars>>

\* a caller of the exported cleanupOldWorkspaces
cleanupOldWorkspaces(s, maxAgeMinutes) ==
  /\ CanSweep(s)
  /\ sweeps' = [sweeps EXCEPT ![s] = CleanupStarted(maxAgeMinutes)]
  /\ UNCHANGED <<now, routerVars, workspaces, execs, timer, helperVars>>

\* fs.readdir answers, lines 243-244
ReaddirAnswers(s, outcome) ==
  /\ sweeps[s].pc = "readdir"
  /\ IF outcome = "ok"
       THEN \E order \in Orders(DOMAIN workspaces) :
              sweeps' = [sweeps EXCEPT ![s] =
                Iterate([@ EXCEPT !.now = now, !.workspaces = order], 1)]
       ELSE sweeps' = [sweeps EXCEPT ![s] = CleanupCaught(@)]
  /\ UNCHANGED <<now, routerVars, workspaces, execs, timer, helperVars>>

\* what fs.stat can answer for workspace w
StatOutcomes(w) ==
  IF w \in DOMAIN workspaces THEN {"ok", "EACCES"} ELSE {"ENOENT"}

\* fs.stat answers, lines 248-254
StatAnswers(s, outcome) ==
  /\ sweeps[s].pc = "stat"
  /\ LET sweep == sweeps[s]
         workspace == sweep.workspaces[sweep.i]
     IN  /\ outcome \in StatOutcomes(workspace)
         /\ sweeps' = [sweeps EXCEPT ![s] =
              IF outcome # "ok" THEN CleanupCaught(sweep)
              ELSE IF IsOld(sweep, workspaces[workspace])
                THEN [sweep EXCEPT !.pc = "rm"]
              ELSE Iterate(sweep, sweep.i + 1)]
  /\ UNCHANGED <<now, routerVars, workspaces, execs, timer, helperVars>>

\* fs.rm(workspacePath, { recursive: true, force: true }) answers, line 253
RmAnswers(s, outcome) ==
  /\ sweeps[s].pc = "rm"
  /\ LET sweep == sweeps[s]
         workspace == sweep.workspaces[sweep.i]
     IN  IF outcome = "ok"
           THEN /\ workspaces' = MapDelete(workspaces, workspace)
                /\ sweeps' = [sweeps EXCEPT ![s] = Iterate(sweep, sweep.i + 1)]
           ELSE /\ workspaces' = workspaces
                /\ sweeps' = [sweeps EXCEPT ![s] = CleanupCaught(sweep)]
  /\ UNCHANGED <<now, routerVars, execs, timer, helperVars>>

\* the command line of a known command, lines 195-209
CommandLine(command) ==
  CASE command = "init" -> "terraform init"
    [] command = "plan" -> "terraform plan -no-color"
    [] command = "apply" -> "terraform apply -auto-approve -no-color"
    [] command = "destroy" -> "terraform destroy -auto-approve -no-color"
    [] command = "output" -> "terraform output -json"

\* the error execAsync rejects with: stdout holds what the child wrote
\* before it ended (undefined and '' are both written << >>)
ExecError(stdout, stderr, message) ==
  [stdout |-> stdout, stderr |-> stderr, message |-> message]

\* a failure answer that drops the captured output
FailureResultWithoutOutput(error) ==
  [success |-> FALSE,
   output |-> << >>,
   error |-> IF error.stderr # << >> THEN error.stderr ELSE error.message]

\* the catch of executeTerraform, lines 228-236
FailureResult(error) ==
  [success |-> FALSE,
   output |-> IF error.stdout # << >> THEN error.stdout ELSE << >>,
   error |-> IF error.stderr # << >> THEN error.stderr ELSE error.message]

\* the return of lines 222-226
SuccessResult(stdout, stderr) ==
  [success |-> TRUE, output |-> stdout, error |-> stderr]

\* executeTerraform(workDir, command) up to the await of execAsync; an
\* unknown command throws inside the try and is answered at once
ExecStarted(caller, workDir, command) ==
  IF command \in KnownCommands
    THEN [IdleExec EXCEPT !.pc = "exec", !.caller = caller,
                          !.workDir = workDir, !.command = command,
                          !.spawned = workDir \in DOMAIN workspaces]
    ELSE [IdleExec EXCEPT !.pc = "done", !.caller = caller,
                          !.workDir = workDir, !.command = command,
                          !.outcome = "unknown",
                          !.result = FailureResult(
                             ExecError(<< >>, << >>,
                                       <<"Unknown command: ", command>>))]

CanExec(e) ==
  /\ execs[e].pc # "exec"
  /\ \A q \in 1..(e - 1) : execs[q].pc = "exec"

\* a caller of the exported executeTerraform
executeTerraform(e, workDir, command) ==
  /\ CanExec(e)
  /\ execs' = [execs EXCEPT ![e] = ExecStarted("caller", workDir, command)]
  /\ UNCHANGED <<now, routerVars, workspaces, sweeps, timer, helperVars>>

\* path.join(workDir, 'main.tf') and path.join(workDir, 'provider.tf') with
\* workDir = path.join(WORKSPACE_BASE, actionId): the files the call writes
RenderedFiles(actionId) ==
  {<<actionId, "main.tf">>, <<actionId, "provider.tf">>}

\* generateTerraformFiles(actionId, ...) up to the await of execAsync: the
\* directory is made, main.tf and provider.tf are written, init is started
generateTerraformFiles(e, actionId) ==
  /\ CanExec(e)
  /\ workspaces' =
       IF actionId \in DOMAIN workspaces THEN workspaces
       ELSE MapSet(workspaces, actionId, now)
  /\ execs' = [execs EXCEPT ![e] =
       [ExecStarted("generateTerraformFiles", actionId, "init")
          EXCEPT !.spawned = TRUE, !.written = RenderedFiles(actionId)]]
  /\ UNCHANGED <<now, routerVars, sweeps, timer, helperVars>>

\* the child process writes to its output and into its working directory
ToolRuns(e) ==
  /\ execs[e].pc = "exec"
  /\ execs[e].spawned
  /\ execs[e].stdout = << >>
  /\ ~execs[e].overdue
  /\ execs' = [execs EXCEPT ![e].stdout = <<"stdout">>]
  /\ workspaces' =
       IF execs[e].workDir \in DOMAIN workspaces
         THEN MapSet(workspaces, execs[e].workDir, now)
         ELSE workspaces
  /\ UNCHANGED <<now, routerVars, sweeps, timer, helperVars>>

\* how the child process can end: a working directory that does not exist
\* fails the spawn; the timeout kills the child after five minutes
ExecOutcomes(exec) ==
  IF ~exec.spawned THEN {"ENOENT"}
  ELSE IF exec.overdue THEN {"timeout"}
  ELSE {"ok", "failed"}

\* a generator that hands the directory back whatever init answered
GeneratedAlways(exec, result) ==
  IF exec.caller # "generateTerraformFiles" THEN Undefined
  ELSE [returns |-> exec.workDir]

\* what generateTerraformFiles does with the result of init, lines 181-187
Generated(exec, result) ==
  IF exec.caller # "generateTerraformFiles" THEN Undefined
  ELSE IF ~result.success
    THEN [throws |-> <<"Terraform init failed: ", result.error>>]
  ELSE [returns |-> exec.workDir]

\* execAsync settles, lines 216-236
ExecSettled(e, outcome) ==
  /\ execs[e].pc = "exec"
  /\ outcome \in ExecOutcomes(execs[e])
  /\ LET exec == execs[e]
         result ==
           IF outcome = "ok" THEN SuccessResult(exec.stdout, << >>)
           ELSE IF outcome = "failed"
             THEN FailureResult(ExecError(exec.stdout, <<"stderr">>,
                                          <<"Command failed: ", CommandLine(exec.command)>>))
           ELSE FailureResult(ExecError(exec.stdout, << >>,
                                        <<"Command failed: ", CommandLine(exec.command)>>))
     IN  execs' = [execs EXCEPT ![e] =
           [exec EXCEPT !.pc = "done", !.overdue = FALSE, !.spawned = FALSE,
                        !.outcome = outcome, !.result = result,
                        !.generated = Generated(exec, result)]]
  /\ UNCHANGED <<now, routerVars, workspaces, sweeps, timer, helperVars>>

\* the calls in progress
Sweeping == {s \in Sweeps : sweeps[s].pc # "idle"}

\* time passes until the interval callback is due: a sweep takes far less,
\* and a child process still running is past the timeout of five minutes
TickToDue ==
  /\ now < timer
  /\ timer <= MaxHours * Hour
  /\ Sweeping = {}
  /\ timer - now >= ExecTimeout
  /\ now' = timer
  /\ execs' = [e \in Execs |->
       IF execs[e].pc = "exec" THEN [execs[e] EXCEPT !.overdue = TRUE]
       ELSE execs[e]]
  /\ UNCHANGED <<routerVars, workspaces, sweeps, timer, helperVars>>

SweepOutcomes == {"ok", "EACCES", "ENOENT", "EBUSY"}

\* what the file system does: a pending call of a sweep is answered; the
\* base directory, which ensureWorkspaceDir has just made, can be listed
SweepAnswers ==
  \/ \E s \in Sweeps, outcome \in {"ok"} : ReaddirAnswers(s, outcome)
  \/ \E s \in Sweeps, outcome \in SweepOutcomes : StatAnswers(s, outcome)
  \/ \E s \in Sweeps, outcome \in {"ok", "EBUSY"} : RmAnswers(s, outcome)

\* what the child process does
ToolAnswers ==
  \/ \E e \in Execs : ToolRuns(e)
  \/ \E e \in Execs, outcome \in {"ok", "failed", "timeout", "ENOENT"} :
        ExecSettled(e, outcome)

\* The workspace janitor: callers generate workspaces, the tool runs in
\* them, the interval and direct callers sweep them.  The clock goes from
\* one due time of the interval to the next.
NextJanitor ==
  \/ TickToDue
  \/ \E s \in Sweeps : IntervalFires(s)
  \/ \E s \in Sweeps, maxAgeMinutes \in MaxAges :
        cleanupOldWorkspaces(s, maxAgeMinutes)
  \/ SweepAnswers
  \/ \E e \in Execs, actionId \in WorkspaceNames :
        generateTerraformFiles(e, actionId)
  \/ ToolAnswers

SpecJanitor == Init /\ [][NextJanitor]_vars

\* The tool runner: callers generate workspaces and run commands in them,
\* with any command name and any working directory, during the first period
\* of the interval (the sweeps are the subject of SpecJanitor).
NextExecutor ==
  \/ TickToDue
  \/ \E e \in Execs, actionId \in WorkspaceNames :
        generateTerraformFiles(e, actionId)
  \/ \E e \in Execs, workDir \in WorkspaceNames, command \in Commands :
        executeTerraform(e, workDir, command)
  \/ ToolAnswers

SpecExecutor == Init /\ [][NextExecutor]_vars

\* ------------------------------------------------------------------------
\* The helper functions on their own: the classifier of the chat handler,
\* the classifier of the client (RealTerraformAgent.jsx, sendMessage) and
\* generateTerraformPlan are applied to one text, one call after the other.
\* ------------------------------------------------------------------------
\* String.prototype.trim
trim(cs) ==
  LET kept == {i \in 1..Len(cs) : cs[i] # " "}
  IN  IF kept = {} THEN << >>
      ELSE SubSeq(cs, CHOOSE i \in kept : \A j \in kept : i <= j,
                      CHOOSE i \in kept : \A j \in kept : j <= i)

\* the word list of sendMessage, RealTerraformAgent.jsx line 125
ClientCreationWords ==
  << <<"c","r","e","a","t","e">>, <<"d","e","p","l","o","y">>,
     <<"s","e","t","u","p">>, <<"b","u","i","l","d">>,
     <<"l","a","u","n","c","h">>, <<"m","a","k","e">>,
     <<"p","r","o","v","i","s","i","o","n">> >>

\* isCreationRequest of sendMessage, lines 118-125, for the text typed
sendMessage(input) ==
  LET userMessage == trim(Chars(input))
      lowerMessage == toLowerCase(userMessage)
  IN  \E k \in 1..Len(ClientCreationWords) :
         includes(lowerMessage, ClientCreationWords[k])

\* the client's classification of every text, evaluated once
ClientClassified == [m \in Texts |-> sendMessage(m)]

InitHelpers ==
  /\ now = 0
  /\ InitRouter
  /\ InitExecutor
  /\ userText \in Texts \ {Absent}
  /\ returned = << >>

Returns(fn, value) ==
  /\ Len(returned) < MaxCalls
  /\ returned' = Append(returned, [fn |-> fn, at |-> now, value |-> value])
  /\ UNCHANGED <<now, routerVars, executorVars, userText>>

ClassifyCalled == Returns("isCreationRequest", isCreationRequest(userText))

SendMessageCalled == Returns("sendMessage", ClientClassified[userText])

GenerateCalled ==
  Returns("generateTerraformPlan", generateTerraformPlan(userText, now))

NextHelpers ==
  \/ Tick
  \/ ClassifyCalled
  \/ SendMessageCalled
  \/ GenerateCalled

SpecHelpers == InitHelpers /\ [][NextHelpers]_vars

TypeOK ==
  /\ now \in Nat
  /\ \A r \in Reqs : reqs[r].kind \in {"none", "verify", "chat", "apply"}

\* ------------------------------------------------------------------------
\* Vocabulary of the properties
\* ------------------------------------------------------------------------
Applies == {r \in Reqs : reqs[r].kind = "apply"}

Chats == {r \in Reqs : reqs[r].kind = "chat"}

Done(r) == reqs[r].pc = "done"

\* the calls request r issued with operation in ops
CallsOf(r, ops) ==
  {i \in 1..Len(reqs[r].calls) : reqs[r].calls[i].op \in ops}

DriverCallsOf(r) == CallsOf(r, Range(DriverSteps))

\* apply request r found its actionId in the ledger
Obtained(r) == reqs[r].kind = "apply" /\ reqs[r].pendingAction # Undefined

\* request r arrives in this step
Arrives(r) == reqs[r].kind = "none" /\ reqs'[r].kind # "none"

\* request r issues a call in this step
IssuesCall(r) == Len(reqs'[r].calls) > Len(reqs[r].calls)

\* ------------------------------------------------------------------------
\* C1: of two apply requests for the same actionId that are handled at the
\* same time, at most one runs the resource driver (the other is answered
\* 404 and issues no driver call).
\* ------------------------------------------------------------------------
C1_ConcurrentApplyRunsDriverOnce ==
  \A r \in Applies, q \in Applies :
     (/\ r # q
      /\ reqs[r].actionId = reqs[q].actionId
      /\ {r, q} \subseteq InFlight)
     => ~(DriverCallsOf(r) # {} /\ DriverCallsOf(q) # {})

\* ------------------------------------------------------------------------
\* C2: when an apply request issues a role-assumption call or a driver call
\* for an actionId, that actionId is no longer in pendingActions.
\* ------------------------------------------------------------------------
C2_EntryRemovedBeforeCalls ==
  [][\A r \in Reqs :
       (reqs'[r].kind = "apply" /\ IssuesCall(r))
       => reqs'[r].actionId \notin DOMAIN pendingActions']_vars

\* ------------------------------------------------------------------------
\* C3: in a series of non-overlapping apply requests for one actionId, once
\* one request has obtained the staged entry every later request of the
\* series is answered 404 and issues no call.
\* ------------------------------------------------------------------------
C3_ConsumedAtMostOnce ==
  [][\A r \in Reqs :
       (/\ Arrives(r)
        /\ reqs'[r].kind = "apply"
        /\ \A q \in Applies : reqs[q].actionId = reqs'[r].actionId => Done(q)
        /\ \E q \in Applies : /\ reqs[q].actionId = reqs'[r].actionId
                              /\ Obtained(q))
       => /\ reqs'[r].response.status = 404
          /\ reqs'[r].calls = << >>]_vars

\* ------------------------------------------------------------------------
\* C4: the first apply request for an action that arrives more than ten
\* minutes after the action was staged is answered 404 and issues no call.
\* ------------------------------------------------------------------------
C4_ExpiredActionNotFound ==
  [][\A r \in Reqs :
       (/\ Arrives(r)
        /\ reqs'[r].kind = "apply"
        /\ reqs'[r].actionId \in DOMAIN pendingActions
        /\ \A q \in Applies : reqs[q].actionId # reqs'[r].actionId
        /\ now > pendingActions[reqs'[r].actionId].timestamp + TenMinutes)
       => /\ reqs'[r].response.status = 404
          /\ reqs'[r].calls = << >>]_vars

\* ------------------------------------------------------------------------
\* C5: every driver call of an apply request is made with the session that
\* the role assumption of that same request returned, and that role
\* assumption was issued for the request's own roleArn and externalId.
\* ------------------------------------------------------------------------
OwnSession(r) == assumeRole(StsCredentials(r, AssumeDurationSeconds))

C5_DriverUsesOwnSession ==
  \A r \in Applies : \A i \in DriverCallsOf(r) :
     /\ reqs[r].calls[i].client = S3Client(OwnSession(r))
     /\ \A q \in Reqs \ {r} :
          reqs[r].calls[i].client.accessKeyId # OwnSession(q).accessKeyId
     /\ \E j \in 1..(i - 1) :
          /\ reqs[r].calls[j].op = "assumeRole"
          /\ reqs[r].calls[j].RoleArn = reqs[r].roleArn
          /\ reqs[r].calls[j].ExternalId = reqs[r].externalId

\* an apply under a role other than the one the action was staged under has
\* run the whole driver
C5_Witness ==
  \E r \in Applies :
     /\ Cardinality(DriverCallsOf(r)) = Len(DriverSteps)
     /\ reqs[r].roleArn = ArnB
     /\ reqs[r].pendingAction.roleArn = ArnA

\* ------------------------------------------------------------------------
\* C6: a request of any of the three routes whose roleArn is not of the
\* role-ARN shape, or whose externalId is not 64 lowercase hex characters,
\* is answered 400 without any external call; no role assumption is ever
\* issued with a roleArn or externalId that is not well formed.
\* ------------------------------------------------------------------------
MalformedRoleArns == {ArnShortAccount, ArnUser}

MalformedExternalIds == {ExtUpper, ExtShort}

WellFormedRoleArns == {ArnA, ArnB}

WellFormedExternalIds == {ExtA, ExtB}

Malformed(req) ==
  req.roleArn \in MalformedRoleArns \/ req.externalId \in MalformedExternalIds

UnknownApplyArrives(r) ==
  /\ Arrives(r)
  /\ reqs'[r].kind = "apply"
  /\ reqs'[r].actionId # NoActionId
  /\ reqs'[r].actionId \notin DOMAIN pendingActions

Succeeded(q) ==
  reqs[q].kind = "apply" /\ Done(q) /\ reqs[q].response.status = 200

C8_AppliedActionNotFound ==
  [][\A r \in Reqs :
       (/\ Arrives(r)
        /\ reqs'[r].kind = "apply"
        /\ \E q \in Reqs : /\ Succeeded(q)
                           /\ reqs[q].actionId = reqs'[r].actionId)
       => /\ reqs'[r].response.status = 404
          /\ reqs'[r].calls = << >>]_vars

\* a later apply for an applied action was answered 404
C8_Witness ==
  \E q \in Reqs, r \in Applies :
     /\ Succeeded(q)
     /\ r > q
     /\ reqs[r].actionId = reqs[q].actionId
     /\ reqs[r].response.status = 404

\* ------------------------------------------------------------------------
\* C9: every stage yields an actionId that no earlier stage returned, so
\* that staging never overwrites an entry of the ledger.
\* ------------------------------------------------------------------------
Stages(r) ==
  /\ reqs[r].kind = "chat" /\ ~Done(r)
  /\ reqs'[r].pc = "done"
  /\ reqs'[r].response.status = 200

C9_FreshActionId ==
  [][\A r \in Reqs :
       Stages(r)
       => /\ reqs'[r].response.actionId \notin ReturnedActionIds
          /\ reqs'[r].response.actionId \notin DOMAIN pendingActions]_vars

\* ------------------------------------------------------------------------
\* C10: the descriptor an apply request executes is the one generated by
\* every chat request whose response returned that actionId, and the entry
\* stored under an actionId does not change while it is in the ledger.
\* ------------------------------------------------------------------------
\* the plan chat request q generated (it reads the clock in the step in
\* which it forms the actionId)
DescriptorOf(q) ==
  generateTerraformPlan(reqs[q].message, reqs[q].response.actionId[2])

StagedBy(a) ==
  {q \in Chats : /\ Done(q)
                 /\ reqs[q].response.status = 200
                 /\ reqs[q].response.requiresConfirmation
                 /\ reqs[q].response.actionId = a}

ExecutesStagedDescriptor ==
  \A r \in Applies : Obtained(r) =>
     \A q \in StagedBy(reqs[r].actionId) :
        /\ reqs[r].pendingAction.resourceType = DescriptorOf(q).resourceType
        /\ reqs[r].pendingAction.resourceConfig = DescriptorOf(q).resourceConfig

EntryUnchanged ==
  \A a \in (DOMAIN pendingActions) \cap (DOMAIN pendingActions') :
     pendingActions'[a] = pendingActions[a]

C10_DescriptorImmutable ==
  [][ExecutesStagedDescriptor' /\ EntryUnchanged]_vars

\* ------------------------------------------------------------------------
\* C11: the driver calls of an apply request are, in order, a prefix of
\* create bucket, enable versioning, enable encryption, apply tags; a call
\* is issued only when every earlier call of the request succeeded; the
\* request issues no other call than its role assumption and these (no
\* delete, no undo); once it has been answered (a failed step answers it)
\* it issues no further call.
\* ------------------------------------------------------------------------
BucketDriverOrder ==
  <<"createBucket", "putBucketVersioning", "putBucketEncryption",
    "putBucketTagging">>

\* the operations of the calls of request r, in the order it issued them
OpsOf(r) == [i \in 1..Len(reqs[r].calls) |-> reqs[r].calls[i].op]

\* every call of request r that is followed by another call was answered ok
EarlierCallsSucceeded(r) ==
  \A i \in 1..(Len(reqs[r].calls) - 1) :
     i <= Len(reqs[r].answers) /\ reqs[r].answers[i].code = "ok"

\* the calls an apply may issue, in order
ApplyCallOrder == <<"assumeRole">> \o BucketDriverOrder

\* the calls of request r are a prefix of that order
CallsInOrder(r) ==
  \A i \in 1..Len(reqs[r].calls) :
     i <= Len(ApplyCallOrder) /\ reqs[r].calls[i].op = ApplyCallOrder[i]

C11_DriverOrderNoRollback ==
  [][\A r \in Reqs :
       /\ reqs'[r].kind = "apply" =>
            CallsInOrder(r)' /\ EarlierCallsSucceeded(r)'
       /\ Done(r) => reqs'[r].calls = reqs[r].calls]_vars

\* an apply failed at its third step: bucket and versioning stay in place
C11_Witness ==
  \E r \in Applies :
     /\ Done(r)
     /\ reqs[r].response.status = 500
     /\ OpsOf(r) = <<"assumeRole", "createBucket", "putBucketVersioning",
                     "putBucketEncryption">>

\* ------------------------------------------------------------------------
\* C12: when a driver step fails after an earlier step of the same apply
\* succeeded, the failure answer of apply states that partial application
\* may have occurred.
\* ------------------------------------------------------------------------
\* the driver steps of request r that succeeded
SucceededSteps(r) ==
  {i \in DriverCallsOf(r) :
     i <= Len(reqs[r].answers) /\ reqs[r].answers[i].code = "ok"}

PartialWords ==
  {<<"p","a","r","t","i","a","l">>,
   <<"i","n","c","o","m","p","l","e","t","e">>,
   <<"s","o","m","e"," ","s","t","e","p","s">>}

\* the answer says so in its texts or carries a field of its own for it
StatesPartialApplication(resp) ==
  \/ ~(DOMAIN resp \subseteq {"status", "success", "error", "message"})
  \/ \E text \in {resp.error, resp.message[1]}, word \in PartialWords :
        includes(toLowerCase(Chars(text)), word)

C12_PartialApplicationReported ==
  \A r \in Applies :
     (Done(r) /\ reqs[r].response.status = 500 /\ SucceededSteps(r) # {})
     => StatesPartialApplication(reqs[r].response)

\* ------------------------------------------------------------------------
\* C13: once a request has been answered, no entry of the ledger (the only
\* state of the server that outlives a request) holds the externalId the
\* request carried.
\* ------------------------------------------------------------------------
\* the request fields an entry holds
EntryFields(entry) ==
  {entry.message, entry.roleArn, entry.externalId, entry.resourceType}

C13_ExternalIdNotRetained ==
  \A r \in Reqs :
     (Done(r) /\ reqs[r].externalId # Absent)
     => \A a \in DOMAIN pendingActions :
           reqs[r].externalId \notin EntryFields(pendingActions[a])

\* ------------------------------------------------------------------------
\* C14: no entry of the ledger has a field for temporary credentials, of
\* its own or inside its resource configuration, and no resource
\* configuration is the session a request obtained.
\* ------------------------------------------------------------------------
CredentialFields ==
  {"accessKeyId", "secretAccessKey", "sessionToken", "expiration",
   "AccessKeyId", "SecretAccessKey", "SessionToken", "Expiration",
   "credentials", "Credentials"}

C14_NoCredentialsInLedger ==
  \A a \in DOMAIN pendingActions :
     LET entry == pendingActions[a]
     IN  /\ DOMAIN entry \cap CredentialFields = {}
         /\ DOMAIN entry.resourceConfig \cap CredentialFields = {}
         /\ \A r \in Reqs : entry.resourceConfig # reqs[r].credentials

\* an apply holds the session of its role assumption while the action it
\* executes is in the ledger
C14_Witness ==
  \E r \in Applies :
     /\ reqs[r].credentials # Undefined
     /\ reqs[r].actionId \in DOMAIN pendingActions

\* ------------------------------------------------------------------------
\* C15 as stated: a chat request with a change-intent that lacks roleArn or
\* externalId is answered 401, issues no call and leaves the ledger as it
\* is (no entry is created, none is swept).
\* ------------------------------------------------------------------------
ChatArrives(r) == Arrives(r) /\ reqs'[r].kind = "chat"

LacksRoleReference(req) == req.roleArn = Absent \/ req.externalId = Absent

Expired(a) == pendingActions[a].timestamp < now - TenMinutes

C16_InformationalChatNoEffect ==
  [][\A r \in Reqs :
       (ChatArrives(r) /\ reqs'[r].message \notin ChangeMessages)
       => /\ Done(r)'
          /\ reqs'[r].calls = << >>
          /\ pendingActions' = pendingActions]_vars

\* a question sent with a role reference was answered while the ledger held
\* an entry older than ten minutes, which is still there
C16_Witness ==
  \E r \in Chats :
     /\ reqs[r].message = MsgInfo
     /\ reqs[r].roleArn = ArnA /\ reqs[r].externalId = ExtA
     /\ reqs[r].response.status = 200
     /\ ~reqs[r].response.requiresConfirmation
     /\ \E a \in DOMAIN pendingActions : Expired(a)

\* ------------------------------------------------------------------------
\* C17: an entry leaves the ledger (its actionId is removed, or holds
\* another entry) only in a step in which an apply for its actionId is
\* answered success, or in a step in which a stage sweeps the ledger and
\* the entry is older than ten minutes.
\* ------------------------------------------------------------------------
Leaves(a) ==
  \/ a \notin DOMAIN pendingActions'
  \/ pendingActions'[a] # pendingActions[a]

SucceedsFor(a) ==
  \E r \in Applies :
     /\ reqs[r].actionId = a
     /\ ~Done(r) /\ Done(r)'
     /\ reqs'[r].response.status = 200

C17_EntryLeavesByApplyOrSweep ==
  [][\A a \in DOMAIN pendingActions :
       Leaves(a) => \/ SucceedsFor(a)
                    \/ (\E r \in Reqs : Stages(r)) /\ Expired(a)]_vars

\* ------------------------------------------------------------------------
\* C18: the sweep that a stage at time t runs removes every entry whose
\* timestamp is older than t minus ten minutes and no other, leaves the
\* entries it keeps as they are, and would change nothing if it ran again
\* at t; right after the stage no entry of the ledger is older than ten
\* minutes.
\* ------------------------------------------------------------------------
C18_SweepExact ==
  [][\A r \in Reqs :
       Stages(r) =>
         LET id == reqs'[r].response.actionId
         IN  /\ \A a \in (DOMAIN pendingActions) \ {id} :
                  IF pendingActions[a].timestamp < now - TenMinutes
                    THEN a \notin DOMAIN pendingActions'
                    ELSE /\ a \in DOMAIN pendingActions'
                         /\ pendingActions'[a] = pendingActions[a]
             /\ DOMAIN pendingActions' \subseteq (DOMAIN pendingActions) \cup {id}
             /\ \A a \in DOMAIN pendingActions' :
                  ~(pendingActions'[a].timestamp < now' - TenMinutes)
             /\ cleanupOldActions(pendingActions', now') = pendingActions']_vars

\* a stage has swept an entry older than ten minutes and kept one of exactly
\* ten minutes
C18_Witness ==
  \E q1 \in Chats, q2 \in Chats, q3 \in Chats :
     /\ Applies = {}
     /\ \A q \in {q1, q2, q3} : Done(q) /\ reqs[q].response.status = 200
     /\ reqs[q1].response.actionId \notin DOMAIN pendingActions
     /\ reqs[q2].response.actionId \in DOMAIN pendingActions
     /\ pendingActions[reqs[q2].response.actionId].timestamp = now - TenMinutes
     /\ reqs[q3].response.actionId \in DOMAIN pendingActions
     /\ pendingActions[reqs[q3].response.actionId].timestamp = now

\* the instants of the bounded clock
ClockValues ==
  {big * TenMinutes + small :
     big \in 0..(MaxBigTicks + 1), small \in 0..MaxSmallTicks}

\* the ledger holds an entry under a that is older than ten minutes
Stale(a) == a \in DOMAIN pendingActions /\ Expired(a)

\* C19: every staged action that is never applied is eventually removed from
\* the ledger once its ten minutes have passed, even if no further chat is
\* staged.
C19_ExpiredEventuallyRemoved ==
  \A t \in ClockValues :
     Stale(ActionIdAt(t)) ~> (ActionIdAt(t) \notin DOMAIN pendingActions)

Verifies == {r \in Reqs : reqs[r].kind = "verify"}

\* the session verify-role builds from the credentials of its role assumption
VerifySession(r) ==
  LET assumedRole == StsCredentials(r, VerifyDurationSeconds)
  IN  [accessKeyId |-> assumedRole.AccessKeyId,
       secretAccessKey |-> assumedRole.SecretAccessKey,
       sessionToken |-> assumedRole.SessionToken]

\* request r assumed the role and checked the identity with the assumed
\* session, and both calls succeeded
IdentityChecked(r) ==
  /\ OpsOf(r) = <<"assumeRole", "getCallerIdentity">>
  /\ Len(reqs[r].answers) = 2
  /\ reqs[r].answers[1].code = "ok"
  /\ reqs[r].answers[2].code = "ok"
  /\ reqs[r].calls[1].RoleArn = reqs[r].roleArn
  /\ reqs[r].calls[1].ExternalId = reqs[r].externalId
  /\ reqs[r].calls[2].client = VerifySession(r)

\* valid:true with the account of the identity check when both calls
\* succeeded, else valid:false without accountId
VerifyAnswerFaithful(r) ==
  LET resp == reqs[r].response
  IN  /\ "valid" \in DOMAIN resp
      /\ IF IdentityChecked(r)
           THEN /\ resp.valid
                /\ "accountId" \in DOMAIN resp
                /\ resp.accountId = reqs[r].answers[2].Account
           ELSE /\ ~resp.valid
                /\ "accountId" \notin DOMAIN resp

C21_SessionDurations ==
  \A r \in Reqs : \A i \in CallsOf(r, {"assumeRole"}) :
     reqs[r].calls[i].DurationSeconds =
       IF reqs[r].kind = "apply" THEN 3600 ELSE 900

\* ------------------------------------------------------------------------
\* C22: within one request no call is issued twice: the role assumption,
\* the identity check and each driver step are issued at most once, also
\* after a failure.
\* ------------------------------------------------------------------------
C22_NoRetry ==
  \A r \in Reqs : \A i, j \in 1..Len(reqs[r].calls) :
     i # j => reqs[r].calls[i].op # reqs[r].calls[j].op

\* an apply whose second driver step failed was answered after three calls
C22_Witness ==
  \E r \in Applies :
     /\ Done(r)
     /\ OpsOf(r) = <<"assumeRole", "createBucket", "putBucketVersioning">>
     /\ Len(reqs[r].answers) = 3
     /\ reqs[r].answers[3].code # "ok"

\* ------------------------------------------------------------------------
\* C23: on every path that assumes a role (verify-role, chat, apply) a
\* provider AccessDenied error is reported to the caller as the actionable
\* guidance (check role ARN, external id, trust policy), and any other
\* provider error is passed through to the caller.
\* ------------------------------------------------------------------------
AccessGuidance ==
  "Access denied. Please check that: 1. Role ARN is correct 2. External ID matches 3. Trust relationship is configured correctly"

\* the text of the failure the response of request r reports: the error
\* field of verify-role, the parts of the message field of chat and apply
ReportedParts(r) ==
  IF reqs[r].kind = "verify" THEN {reqs[r].response.error}
  ELSE {reqs[r].response.message[i] :
          i \in 1..Len(reqs[r].response.message)}

\* the role assumption of request r was answered with a provider error
AssumptionFailed(r) ==
  /\ Done(r)
  /\ Len(reqs[r].calls) = 1
  /\ reqs[r].calls[1].op = "assumeRole"
  /\ Len(reqs[r].answers) = 1
  /\ reqs[r].answers[1].code # "ok"

C23_AccessDeniedGuidance ==
  \A r \in Reqs :
     AssumptionFailed(r) =>
       IF reqs[r].answers[1].code = "AccessDenied"
         THEN AccessGuidance \in ReportedParts(r)
         ELSE reqs[r].answers[1].code \in ReportedParts(r)

\* ------------------------------------------------------------------------
\* C24: a workspace sweep with threshold maxAgeMinutes never removes a
\* workspace whose age (now minus last-modified time) is at most the
\* threshold, and every workspace strictly older than the threshold of the
\* interval is removed within one sweep period of becoming so: none is
\* older than the threshold plus one hour unless a sweep is in progress.
\* ------------------------------------------------------------------------
Removed == (DOMAIN workspaces) \ (DOMAIN workspaces')

RemovedBy(s, w) ==
  /\ sweeps[s].pc = "rm"
  /\ sweeps[s].workspaces[sweeps[s].i] = w

Overdue(w) ==
  now - workspaces[w] > IntervalMaxAgeMinutes * Minute + Hour

C24_SweepRespectsThreshold ==
  [][/\ \A w \in Removed : \E s \in Sweeps :
          /\ RemovedBy(s, w)
          /\ now - workspaces[w] > sweeps[s].maxAgeMinutes * Minute
     /\ (\E w \in DOMAIN workspaces' : Overdue(w)') => Sweeping' # {}]_vars

\* ------------------------------------------------------------------------
\* C25: within one sweep a failure to stat or remove one workspace does not
\* stop the sweep: when the sweep returns, every other workspace it listed
\* that is older than the threshold has been removed.
\* ------------------------------------------------------------------------
SweepReturns(s) == sweeps[s].pc \in {"stat", "rm"} /\ sweeps'[s].pc = "idle"

C25_SweepContinuesPastFailure ==
  [][\A s \in Sweeps :
       SweepReturns(s) =>
         \A j \in 1..Len(sweeps[s].workspaces) :
            j # sweeps[s].i =>
              LET w == sweeps[s].workspaces[j]
              IN  w \in DOMAIN workspaces' =>
                    ~IsOld(sweeps[s], workspaces'[w])]_vars

\* ------------------------------------------------------------------------
\* C26: at most one workspace sweep is in progress at any time.
\* ------------------------------------------------------------------------
C26_OneSweepAtATime == Cardinality(Sweeping) <= 1

\* ------------------------------------------------------------------------
\* C27: executeTerraform always returns a result and never throws: when the
\* tool times out or fails, and when the command name is not one of init,
\* plan, apply, destroy, output, it returns success:false together with the
\* output captured so far, and it leaves the workspace directories as they
\* are.
\* ------------------------------------------------------------------------
ExecReturns(e) == execs'[e].pc = "done" /\ execs'[e] # execs[e]

\* what the child process of call e has written to its output so far
Captured(e) == IF execs[e].pc = "exec" THEN execs[e].stdout ELSE << >>

C27_ExecuteAlwaysReturns ==
  [][\A e \in Execs :
       ExecReturns(e) =>
         /\ DOMAIN execs'[e].result = {"success", "output", "error"}
         /\ execs'[e].result.success = (execs'[e].outcome = "ok")
         /\ execs'[e].outcome # "ok" =>
              /\ execs'[e].result.output = Captured(e)
              /\ workspaces' = workspaces]_vars

\* a command that had written output was killed by the timeout and answered
\* with that output, its workspace still there
C27_Witness ==
  \E e \in Execs :
     /\ execs[e].pc = "done"
     /\ execs[e].outcome = "timeout"
     /\ execs[e].stdout # << >>
     /\ execs[e].result.success = FALSE
     /\ execs[e].result.output = execs[e].stdout
     /\ execs[e].workDir \in DOMAIN workspaces

\* the calls of function fn made so far
CallsTo(fn) == {i \in 1..Len(returned) : returned[i].fn = fn}

\* ------------------------------------------------------------------------
\* C28: two generate calls for an S3-bucket request made one after the
\* other yield two different bucket names, also when both read the same
\* clock value.
\* ------------------------------------------------------------------------
C28_DistinctBucketNames ==
  \A i, j \in CallsTo("generateTerraformPlan") :
     (i < j /\ returned[i].value.resourceType = "s3-bucket"
            /\ returned[j].value.resourceType = "s3-bucket")
       => returned[i].value.resourceConfig.bucketName
            # returned[j].value.resourceConfig.bucketName

\* ------------------------------------------------------------------------
\* C29: a message is classified as a change-intent exactly when its
\* lower-cased text contains one of the seven verbs create, deploy, setup,
\* build, launch, make, provision; the server and the client compute the
\* same classification.
\* ------------------------------------------------------------------------
SevenVerbs ==
  {<<"c","r","e","a","t","e">>, <<"d","e","p","l","o","y">>,
   <<"s","e","t","u","p">>, <<"b","u","i","l","d">>,
   <<"l","a","u","n","c","h">>, <<"m","a","k","e">>,
   <<"p","r","o","v","i","s","i","o","n">>}

ContainsVerb(text) ==
  \E verb \in SevenVerbs : includes(toLowerCase(Chars(text)), verb)

\* evaluated once
TextsWithVerb == {m \in Texts : ContainsVerb(m)}

C29_ClassifiedByVerb ==
  /\ \A i \in CallsTo("isCreationRequest") :
        returned[i].value = (userText \in TextsWithVerb)
  /\ \A i \in CallsTo("sendMessage") :
        returned[i].value = (userText \in TextsWithVerb)
  /\ \A i \in CallsTo("isCreationRequest"), j \in CallsTo("sendMessage") :
        returned[i].value = returned[j].value

\* server and client both took a text whose verb is in upper case for a
\* change-intent
C29_Witness ==
  /\ userText = TxtUpper
  /\ \E i \in CallsTo("isCreationRequest") : returned[i].value
  /\ \E j \in CallsTo("sendMessage") : returned[j].value

\* ------------------------------------------------------------------------
\* C30: generate returns the storage-bucket result (resourceType s3-bucket,
\* non-empty resource list, cost estimate and warnings) exactly when the
\* lower-cased request contains both s3 and bucket; for every other request
\* it returns the clarify result with an empty resource list and an empty
\* resourceConfig.
\* ------------------------------------------------------------------------
\* evaluated once
TextsWithS3AndBucket ==
  {m \in Texts :
     /\ includes(toLowerCase(Chars(m)), <<"s","3">>)
     /\ includes(toLowerCase(Chars(m)), <<"b","u","c","k","e","t">>)}

C30_BucketRuleOrClarify ==
  \A i \in CallsTo("generateTerraformPlan") :
     LET result == returned[i].value
     IN  IF userText \in TextsWithS3AndBucket
           THEN /\ result.resourceType = "s3-bucket"
                /\ result.resources # << >>
                /\ result.estimatedCost # ""
                /\ result.warnings # << >>
           ELSE /\ result.resourceType = "unknown"
                /\ result.resources = << >>
                /\ result.resourceConfig = EmptyObject

\* a request that names the bucket before S3, in mixed case, got the
\* storage-bucket result
C30_Witness ==
  /\ userText = TxtReversed
  /\ \E i \in CallsTo("generateTerraformPlan") :
        /\ returned[i].value.resourceType = "s3-bucket"
        /\ Len(returned[i].value.resources) = 3

\* ------------------------------------------------------------------------
\* C31: apply runs the driver for an actionId only when the roleArn and the
\* externalId of the apply request are those recorded in the ledger entry
\* by the chat request that staged the action.
\* ------------------------------------------------------------------------
C31_ExecutedUnderStagedRole ==
  \A r \in Applies :
     DriverCallsOf(r) # {} =>
        /\ reqs[r].roleArn = reqs[r].pendingAction.roleArn
        /\ reqs[r].externalId = reqs[r].pendingAction.externalId

\* ------------------------------------------------------------------------
\* C32: every entry of the ledger has a resourceType for which a driver
\* exists, and a chat whose plan is the clarify result (resourceType
\* unknown) is not answered requiresConfirmation:true.
\* ------------------------------------------------------------------------
\* the resource types createAWSResource has a driver for
DrivenResourceTypes == {"s3-bucket"}

C32_OnlyDrivenTypesStaged ==
  /\ \A a \in DOMAIN pendingActions :
        pendingActions[a].resourceType \in DrivenResourceTypes
  /\ \A r \in Chats :
        (Done(r) /\ reqs[r].response.status = 200
                 /\ reqs[r].response.requiresConfirmation)
           => reqs[r].message \in BucketRequests

\* ------------------------------------------------------------------------
\* C33: a chat request stages an action only after its own role assumption
\* succeeded; when the role assumption fails the request is answered 401
\* without a plan, no entry is added to the ledger and no sweep runs.
\* ------------------------------------------------------------------------
\* the role assumption of chat request r is answered in this step
ChatAssumptionSettles(r) ==
  /\ reqs[r].kind = "chat" /\ reqs[r].pc = "assumeRole"
  /\ reqs'[r].pc # "assumeRole"

PlanFields == {"actionId", "terraformCode", "plan", "resources"}

\* entry a is written in this step
Written(a) ==
  \/ a \notin DOMAIN pendingActions
  \/ pendingActions'[a] # pendingActions[a]

C33_StagedOnlyAfterAssumption ==
  [][/\ \A r \in Reqs :
          (ChatAssumptionSettles(r) /\ reqs'[r].answers[1].code # "ok")
          => /\ reqs'[r].response.status = 401
             /\ (DOMAIN reqs'[r].response) \cap PlanFields = {}
             /\ pendingActions' = pendingActions
     /\ \A a \in DOMAIN pendingActions' :
          Written(a)
          => \E r \in Reqs :
                /\ ChatAssumptionSettles(r)
                /\ reqs'[r].calls =
                     <<AssumeRoleCall(reqs[r].roleArn, reqs[r].externalId)>>
                /\ reqs'[r].answers = <<Ok>>
                /\ reqs'[r].response.actionId = a
                /\ pendingActions'[a].message = reqs[r].message]_vars

\* a change was asked for, the provider denied the role assumption and the
\* request was answered 401 while the ledger held an entry older than ten
\* minutes, which is still there
C33_Witness ==
  \E r \in Chats :
     /\ Done(r)
     /\ reqs[r].response.status = 401
     /\ Len(reqs[r].answers) = 1
     /\ reqs[r].answers[1].code = "AccessDenied"
     /\ \E a \in DOMAIN pendingActions : Expired(a)

\* ------------------------------------------------------------------------
\* C34: in apply the role assumption precedes the first driver step; when
\* the role assumption fails no driver step is attempted, the request is
\* answered with a failure (success:false) and the ledger is left as it is.
\* ------------------------------------------------------------------------
\* the role assumption of apply request r is answered in this step
ApplyAssumptionSettles(r) ==
  /\ reqs[r].kind = "apply" /\ reqs[r].pc = "assumeRole"
  /\ reqs'[r].pc # "assumeRole"

C34_AssumptionBeforeDriver ==
  [][\A r \in Reqs :
       /\ (reqs'[r].kind = "apply" /\ DriverCallsOf(r)' # {})
          => /\ reqs'[r].calls[1].op = "assumeRole"
             /\ reqs'[r].answers[1].code = "ok"
             /\ 1 \notin DriverCallsOf(r)'
       /\ (ApplyAssumptionSettles(r) /\ reqs'[r].answers[1].code # "ok")
          => /\ Done(r)'
             /\ reqs'[r].calls = reqs[r].calls
             /\ reqs'[r].response.status = 500
             /\ ~reqs'[r].response.success
             /\ pendingActions' = pendingActions]_vars

\* an apply whose role assumption was denied has been answered 500 after
\* that one call, and the action it asked for is still staged
C34_Witness ==
  \E r \in Applies :
     /\ Done(r)
     /\ reqs[r].response.status = 500
     /\ OpsOf(r) = <<"assumeRole">>
     /\ reqs[r].answers[1].code = "AccessDenied"
     /\ reqs[r].actionId \in DOMAIN pendingActions

\* ------------------------------------------------------------------------
\* C35: apply answers success:true only when the four driver steps (create,
\* versioning, encryption, tags) all succeeded for the staged bucket name,
\* and the bucket_name of the outputs is the bucketName of the staged
\* resourceConfig; in every other case it answers with an error status and
\* success is not true.
\* ------------------------------------------------------------------------
ErrorStatuses == {400, 404, 500}

\* apply request r ran the four steps on the staged bucket, all answered ok
AllStepsSucceeded(r) ==
  /\ OpsOf(r) = ApplyCallOrder
  /\ Len(reqs[r].answers) = Len(ApplyCallOrder)
  /\ \A i \in 1..Len(reqs[r].answers) : reqs[r].answers[i].code = "ok"
  /\ \A i \in DriverCallsOf(r) :
        reqs[r].calls[i].Bucket = reqs[r].pendingAction.resourceConfig.bucketName

AnswersSuccess(r) ==
  /\ "success" \in DOMAIN reqs[r].response
  /\ reqs[r].response.success

C35_SuccessOnlyAfterAllSteps ==
  \A r \in Applies :
     Done(r) =>
       IF Obtained(r) /\ reqs[r].pendingAction.resourceType = "s3-bucket"
            /\ AllStepsSucceeded(r)
         THEN /\ reqs[r].response.status = 200
              /\ AnswersSuccess(r)
              /\ reqs[r].response.outputs.bucket_name =
                   reqs[r].pendingAction.resourceConfig.bucketName
         ELSE /\ reqs[r].response.status \in ErrorStatuses
              /\ ~AnswersSuccess(r)

\* an apply was answered success with the staged bucket name after its
\* five calls
C35_Witness ==
  \E r \in Applies :
     /\ Done(r)
     /\ AnswersSuccess(r)
     /\ Len(reqs[r].calls) = 5
     /\ reqs[r].response.outputs.bucket_name =
          reqs[r].pendingAction.resourceConfig.bucketName

\* ------------------------------------------------------------------------
\* C36: an apply request that waits for its role assumption or for a driver
\* step does not block other requests: while it is pending, every other
\* request whose awaited call has been answered can take its next step, so
\* that a chat stages a new action and an apply for another actionId runs
\* to completion.
\* ------------------------------------------------------------------------
PendingApply(r) ==
  /\ reqs[r].kind = "apply"
  /\ reqs[r].pc \in {"assumeRole"} \cup Range(DriverSteps)

\* request q can take the step that follows the answer it waits for
CanProceed(q) ==
  /\ (reqs[q].kind = "chat" /\ reqs[q].pc = "assumeRole"
        /\ RoundTripOver(reqs[q]))
     => ENABLED ChatStaged(q)
  /\ (reqs[q].kind = "apply" /\ reqs[q].pc = "assumeRole"
        /\ RoundTripOver(reqs[q]))
     => ENABLED ApplyAssumed(q, "ok")
  /\ (reqs[q].kind = "apply" /\ reqs[q].pc \in Range(DriverSteps)
        /\ reqs[q].pc # DriverSteps[Len(DriverSteps)])
     => ENABLED DriverStepDone(q)
  /\ (reqs[q].kind = "apply" /\ reqs[q].pc = DriverSteps[Len(DriverSteps)])
     => ENABLED ApplySucceeded(q)

VerifySteps(r) == reqs'[r].kind = "verify" /\ reqs'[r] # reqs[r]

\* the clients of the calls request q made
ClientsOf(q) ==
  {reqs[q].calls[i].client :
     i \in {j \in 1..Len(reqs[q].calls) : "client" \in DOMAIN reqs[q].calls[j]}}

SessionConfined(r) ==
  /\ \A a \in DOMAIN pendingActions :
        /\ DOMAIN pendingActions[a] \cap CredentialFields = {}
        /\ pendingActions[a].resourceConfig # VerifySession(r)
  /\ \A q \in Reqs \ {r} :
        /\ reqs[q].credentials # VerifySession(r)
        /\ \A client \in ClientsOf(q) :
              client.accessKeyId # VerifySession(r).accessKeyId

C37_VerifyLeavesNoTrace ==
  [][\A r \in Reqs :
       /\ VerifySteps(r) => pendingActions' = pendingActions
       /\ reqs'[r].kind = "verify" => SessionConfined(r)']_vars

\* a verification succeeded and holds its session; a later request has
\* staged an action after a role assumption of its own
C37_Witness ==
  \E r \in Verifies, q \in Chats :
     /\ q > r
     /\ Done(r)
     /\ reqs[r].response.status = 200
     /\ reqs[r].response.valid
     /\ reqs[r].credentials = VerifySession(r)
     /\ Done(q)
     /\ reqs[q].response.status = 200
     /\ reqs[q].response.requiresConfirmation
     /\ reqs[q].response.actionId \in DOMAIN pendingActions

\* ------------------------------------------------------------------------
\* C38: generateTerraformFiles returns the workspace directory only when
\* the init step succeeded; when init fails it throws, it never runs
\* another command than init (the apply step is not invoked), and the
\* directory with main.tf and provider.tf stays on disk; both files are
\* written inside the directory named after the actionId and nowhere else.
\* ------------------------------------------------------------------------
Generating(e) ==
  execs[e].pc = "exec" /\ execs[e].caller = "generateTerraformFiles"

\* the init of a generateTerraformFiles call ends in this step
GenerateSettles(e) == Generating(e) /\ execs'[e].pc = "done"

C38_GenerateReturnsAfterInit ==
  [][\A e \in Execs :
       /\ GenerateSettles(e)
          => IF execs'[e].outcome = "ok"
               THEN execs'[e].generated = [returns |-> execs[e].workDir]
               ELSE /\ DOMAIN execs'[e].generated = {"throws"}
                    /\ execs[e].workDir \in DOMAIN workspaces'
                    /\ DOMAIN workspaces' = DOMAIN workspaces
                    /\ execs'[e].written = execs[e].written
       /\ Generating(e)'
          => /\ execs'[e].command = "init"
             /\ execs'[e].written =
                  {<<execs'[e].workDir, "main.tf">>,
                   <<execs'[e].workDir, "provider.tf">>}]_vars

\* init failed after writing to its output: the call threw and the
\* directory with its two files is still there
C38_Witness ==
  \E e \in Execs :
     /\ execs[e].pc = "done"
     /\ execs[e].caller = "generateTerraformFiles"
     /\ execs[e].outcome = "failed"
     /\ DOMAIN execs[e].generated = {"throws"}
     /\ execs[e].workDir \in DOMAIN workspaces
     /\ Cardinality(execs[e].written) = 2

\* ------------------------------------------------------------------------
\* C39: validateAwsCredentials does exactly one of two things with every
\* request: it answers 400 and does not call next when a present roleArn
\* is not of the role-ARN shape or a present externalId is not 64 lowercase
\* hex characters, and it calls next without answering otherwise; an absent
\* roleArn or externalId passes the test of that field.
\* ------------------------------------------------------------------------
ValidatorErrors == {"Invalid Role ARN format", "Invalid External ID format"}

\* the request was answered by the validator
AnsweredByValidator(r) ==
  /\ Done(r)
  /\ reqs[r].response.status = 400
  /\ "error" \in DOMAIN reqs[r].response
  /\ reqs[r].response.error \in ValidatorErrors

====
